---------------------------- MODULE Spec2Model ----------------------------
(***************************************************************************)
(* A model of dockerw (src/dockerw/dockerw.py): the defaults load loop,     *)
(* argument resolution with its wrapper actions, container reconciliation,  *)
(* bootstrap synthesis and dispatch of dockerw_run.                         *)
(*                                                                         *)
(* Python strings are modelled as sequences of one-character strings, so    *)
(* that split, startswith, re.sub and the image regular expression are      *)
(* computed as the code computes them.                                      *)
(***************************************************************************)
EXTENDS Integers, Sequences, FiniteSets, TLC

(***************************************************************************)
(* Bounds of the model.                                                     *)
(***************************************************************************)
\* longest sequence of order-sensitive option tokens on the command line
MaxTok == 2
\* passes of dockerw_run within one tool invocation (line 675 re-enters it)
MaxPasses == 2
\* characters of an image reference given on the command line
MaxImgLen == 5

(***************************************************************************)
(* Module constants of dockerw.py and of the host it runs on.               *)
(***************************************************************************)
DOCKERW_UNAME == <<"u">>
PW_DIR == <<"/", "h", "o", "m", "e", "/", "u">>
HOME_U == <<"/", "h", "o", "m", "e", "/">> \o DOCKERW_UNAME
DOCKERW_VENV_PATH == <<"/", ".", "d", "o", "c", "k", "e", "r", "w">>
DOCKERW_VENV_HOME_PATH == DOCKERW_VENV_PATH \o <<"/", "h", "o", "m", "e", "/">> \o DOCKERW_UNAME
DOCKERW_VENV_COPY_PATH == DOCKERW_VENV_PATH \o <<"/", "c", "o", "p", "y">>
DOCKERW_VENV_SH_PATH == DOCKERW_VENV_PATH \o <<"/", "v", "e", "n", "v", ".", "s", "h">>
DOCKERW_VENV_SHELLS == { <<"s", "h">>, <<"b", "a", "s", "h">>, <<"d", "a", "s", "h">>,
                         <<"k", "s", "h">>, <<"a", "s", "h">> }
TMP_DOCKERW == <<"/", "t", "m", "p", "/", "d", "o", "c", "k", "e", "r", "w">>
S_docker_io == <<"d", "o", "c", "k", "e", "r", ".", "i", "o">>
S_latest == <<"l", "a", "t", "e", "s", "t">>
S_localhost == <<"l", "o", "c", "a", "l", "h", "o", "s", "t">>
S_root == <<"r", "o", "o", "t">>
S_sh == <<"s", "h">>
S_ro == <<"r", "o">>
S_rw == <<"r", "w">>
\* the directory dockerw is invoked in (pathlib.Path.cwd())
CWD == <<"/", "w">>

(***************************************************************************)
(* Python string operations.                                                *)
(***************************************************************************)
\* s.startswith(p)
StartsWith(s, p) == Len(s) >= Len(p) /\ SubSeq(s, 1, Len(p)) = p

\* s.find(c) + 1: the first position of character c in s, 0 when absent
IndexOf(s, c) ==
    IF \E i \in 1..Len(s) : s[i] = c
    THEN CHOOSE i \in 1..Len(s) : s[i] = c /\ \A j \in 1..(i - 1) : s[j] # c
    ELSE 0

\* s.split(c)
RECURSIVE Split(_, _)
Split(s, c) ==
    LET i == IndexOf(s, c)
    IN  IF i = 0 THEN <<s>>
        ELSE <<SubSeq(s, 1, i - 1)>> \o Split(SubSeq(s, i + 1, Len(s)), c)

\* c.join(parts)
RECURSIVE Join(_, _)
Join(parts, c) ==
    IF Len(parts) = 0 THEN <<>>
    ELSE IF Len(parts) = 1 THEN parts[1]
    ELSE parts[1] \o <<c>> \o Join(Tail(parts), c)

\* s.lstrip(c)
RECURSIVE LStrip(_, _)
LStrip(s, c) == IF Len(s) > 0 /\ s[1] = c THEN LStrip(Tail(s), c) ELSE s

\* re.sub(r'^~', repl, s)
SubTilde(s, repl) == IF Len(s) > 0 /\ s[1] = "~" THEN repl \o Tail(s) ELSE s

\* x in list
InList(x, list) == \E i \in 1..Len(list) : list[i] = x

\* str(pathlib.PosixPath(s)): empty and "." components are dropped
PosixStr(s) ==
    LET comps == SelectSeq(Split(s, "/"), LAMBDA p : p # <<>> /\ p # <<".">>)
        abs   == Len(s) > 0 /\ s[1] = "/"
    IN  IF abs THEN <<"/">> \o Join(comps, "/")
        ELSE IF Len(comps) = 0 THEN <<".">> ELSE Join(comps, "/")

\* str(pathlib.PosixPath(base) / rel)
PathJoin(base, rel) ==
    IF Len(rel) > 0 /\ rel[1] = "/" THEN PosixStr(rel)
    ELSE PosixStr(base \o <<"/">> \o rel)

\* str(pathlib.PosixPath(s).resolve()) in working directory cwd, on a file
\* system without symbolic links and for paths without ".." components
PathResolve(s, cwd) == PathJoin(cwd, s)

(***************************************************************************)
(* _update_volume_paths, lines 156-171.                                     *)
(***************************************************************************)
\* lines 163-167: the option string of a volume given Copy semantics
CopyOptions(options) ==
    LET opts == IF options # <<>> THEN Split(options, ",") ELSE <<>>
    IN  IF ~InList(S_ro, opts)
        THEN Join(SelectSeq(opts, LAMBDA o : o # S_rw) \o <<S_ro>>, ",")
        ELSE Join(opts, ",")

\* lines 162-169: whether the Copy branch rewrites this destination
TakesCopyBranch(is_copy, dest_path) ==
    is_copy /\ ~StartsWith(dest_path, DOCKERW_VENV_COPY_PATH)

\* the body of the loop of lines 157-170 for one volume string
UpdateVolumePath(volume, is_copy) ==
    LET f        == SubSeq(Split(volume, ":") \o << <<>> >>, 1, 3)
        src_path == PathResolve(SubTilde(f[1], PW_DIR), CWD)
        dest0    == SubTilde(f[2], HOME_U)
        options0 == f[3]
        copy     == TakesCopyBranch(is_copy, dest0)
        dest_path == IF copy
                     THEN PathJoin(DOCKERW_VENV_COPY_PATH, LStrip(dest0, "/"))
                     ELSE IF StartsWith(dest0, HOME_U)
                     THEN DOCKERW_VENV_HOME_PATH \o SubSeq(dest0, Len(HOME_U) + 1, Len(dest0))
                     ELSE dest0
        options  == IF copy THEN CopyOptions(options0) ELSE options0
    IN  src_path \o <<":">> \o dest_path
          \o (IF options # <<>> THEN <<":">> \o options ELSE <<>>)

\* _update_volume_paths(volumes, is_copy)
UpdateVolumePaths(volumes, is_copy) ==
    [i \in 1..Len(volumes) |-> UpdateVolumePath(volumes[i], is_copy)]

(***************************************************************************)
(* _parse_image_name, lines 173-181.  The regular expression of line 176    *)
(* is an optional registry group (a "/"-free text that holds "." or ":" or  *)
(* starts with localhost, followed by "/"), an optional "/", the name      *)
(* (one character of a-z0-9, then everything up to the first ":"), an       *)
(* optional ":" and the tag (the rest).  It is matched as Python's          *)
(* backtracking matcher does: first with the registry group, then without.  *)
(***************************************************************************)
\* a variant of the character class that starts a name: upper case too
AlnumAnyCase == {"a", "b", "c", "0", "1", "A", "B", "C"}

LowerAlnum == {"a", "b", "c", "d", "e", "f", "g", "h", "i", "j", "k", "l", "m",
               "n", "o", "p", "q", "r", "s", "t", "u", "v", "w", "x", "y", "z",
               "0", "1", "2", "3", "4", "5", "6", "7", "8", "9"}

\* the optional "/", the name and the tag matched at the start of r
MatchNameTag(r) ==
    LET r1 == IF Len(r) > 0 /\ r[1] = "/" THEN Tail(r) ELSE r
        i  == IndexOf(r1, ":")
    IN  IF Len(r1) > 0 /\ r1[1] \in LowerAlnum
        THEN [ok |-> TRUE,
              name |-> IF i = 0 THEN r1 ELSE SubSeq(r1, 1, i - 1),
              tag  |-> IF i = 0 THEN <<>> ELSE SubSeq(r1, i + 1, Len(r1))]
        ELSE [ok |-> FALSE, name |-> <<>>, tag |-> <<>>]

\* the registry group: the text before the first "/" when it holds "." or
\* ":" or starts with localhost
MatchRegistry(s) ==
    LET i   == IndexOf(s, "/")
        seg == SubSeq(s, 1, i - 1)
    IN  IF i > 0 /\ (InList(".", seg) \/ InList(":", seg) \/ StartsWith(seg, S_localhost))
        THEN [ok |-> TRUE, registry |-> seg, rest |-> SubSeq(s, i + 1, Len(s))]
        ELSE [ok |-> FALSE, registry |-> <<>>, rest |-> s]

\* _parse_image_name: ok = FALSE is the exit() of line 178
ParseImageName(image_name) ==
    LET reg   == MatchRegistry(image_name)
        withR == MatchNameTag(reg.rest)
        noR   == MatchNameTag(image_name)
    IN  IF reg.ok /\ withR.ok
        THEN [ok |-> TRUE, registry |-> reg.registry, name |-> withR.name,
              tag |-> IF withR.tag # <<>> THEN withR.tag ELSE S_latest]
        ELSE IF noR.ok
        THEN [ok |-> TRUE, registry |-> S_docker_io, name |-> noR.name,
              tag |-> IF noR.tag # <<>> THEN noR.tag ELSE S_latest]
        ELSE [ok |-> FALSE, registry |-> <<>>, name |-> <<>>, tag |-> <<>>]

\* a variant of the rendering that leaves the registry out
RenderImageNoRegistry(p) == p.name \o <<":">> \o p.tag

\* f'{image_repo}/{image_name}:{image_tag}', lines 572 and 594
RenderImage(p) == p.registry \o <<"/">> \o p.name \o <<":">> \o p.tag

(***************************************************************************)
(* Values of the Python program.                                            *)
(***************************************************************************)
\* Python's None where a string is expected: no string of characters
NONE == <<"None">>
\* a store_true option with default=None (lines 558-561) is None or True; the
\* reconciliation flags derived from it are None, True or False
PyNone == "None"
PyTrue == "True"
PyFalse == "False"
\* bool(x) of such a value
Truthy(x) == x = PyTrue
\* True / False of Python as such a value
PyBool(b) == IF b THEN PyTrue ELSE PyFalse

\* literal strings of the wrapper actions
S_dood_volume == <<"/", "v", "a", "r", "/", "r", "u", "n", "/", "d", "o", "c", "k", "e", "r", ".", "s", "o", "c", "k", ":",
                   "/", "v", "a", "r", "/", "r", "u", "n", "/", "d", "o", "c", "k", "e", "r", ".", "s", "o", "c", "k">>
S_x11_volume == <<"/", "t", "m", "p", "/", ".", "X", "1", "1", "-", "u", "n", "i", "x", ":",
                  "/", "t", "m", "p", "/", ".", "X", "1", "1", "-", "u", "n", "i", "x", ":", "r", "o">>
S_xauthority_dest == <<":", "~", "/", ".", "X", "a", "u", "t", "h", "o", "r", "i", "t", "y", ":", "r", "o">>
S_env_venv == <<"D", "O", "C", "K", "E", "R", "W", "_", "V", "E", "N", "V", "=", "1">>
S_env_rc == <<"E", "N", "V", "=">> \o DOCKERW_VENV_PATH \o <<"/", "r", "c", ".", "s", "h">>
S_env_term == <<"T", "E", "R", "M", "=", "x", "t", "e", "r", "m", "-", "2", "5", "6", "c", "o", "l", "o", "r">>
S_env_display == <<"D", "I", "S", "P", "L", "A", "Y">>
S_seccomp == <<"s", "e", "c", "c", "o", "m", "p", "=", "u", "n", "c", "o", "n", "f", "i", "n", "e", "d">>
S_detach_keys == <<"c", "t", "r", "l", "-", "q", ",", "c", "t", "r", "l", "-", "q">>
S_host == <<"h", "o", "s", "t">>
S_app == <<"/", "a", "p", "p">>
S_tmp_volume == TMP_DOCKERW \o <<":">> \o TMP_DOCKERW
\* platform.node() and the authority file xauth reports on this host
HOST_NODE == <<"h">>
XAUTH_FILE == <<"/", "x", "a">>
\* the optional developer config paths of lines 99-100, in the order of the code
DevPathsMount == << <<"~", "/", ".", "b", "a", "s", "h", "_", "h", "i", "s", "t", "o", "r", "y">>,
                    <<"~", "/", ".", "v", "s", "c", "o", "d", "e">>,
                    <<"~", "/", ".", "e", "m", "a", "c", "s">>,
                    <<"~", "/", ".", "e", "m", "a", "c", "s", ".", "d">>,
                    <<"~", "/", ".", "v", "i", "m", "r", "c">> >>
DevPathsCopy == << <<"~", "/", ".", "g", "i", "t", "c", "o", "n", "f", "i", "g">>,
                   <<"~", "/", ".", "s", "s", "h">> >>

\* one option of the command line or of a defaults document: its long name
\* and its value ("" for an option that takes none)
Tok(opt, val) == [opt |-> opt, val |-> val]
Flag(opt) == Tok(opt, <<>>)

(***************************************************************************)
(* The argparse namespace of run_parser, lines 532-566: the options docker  *)
(* run declares that the model follows, and the wrapper's own.              *)
(***************************************************************************)
Namespace ==
    [ \* docker run options (added by _add_docker_args, lines 207-219)
      name |-> NONE, interactive |-> FALSE, tty |-> FALSE, detach |-> FALSE,
      rm |-> FALSE, init |-> FALSE, privileged |-> FALSE,
      network |-> NONE, hostname |-> NONE, workdir |-> NONE,
      detach_keys |-> NONE, entrypoint |-> NONE,
      security_opt |-> [type |-> "list", val |-> <<>>], volume |-> <<>>, env |-> <<>>,
      \* the options of lines 534-564
      image |-> <<>>, user |-> NONE, parse_cwd |-> CWD, load |-> NONE,
      disable_auto_load |-> FALSE, vscode |-> FALSE, default_image |-> NONE,
      default_shell |-> NONE, defaults |-> FALSE, x11 |-> FALSE, venv |-> FALSE,
      login_shell |-> FALSE, dood |-> FALSE, args_only |-> FALSE,
      cache_cmd |-> FALSE, print_cmd |-> FALSE, print_defaults |-> FALSE,
      prompt_banner |-> NONE, auto_attach |-> PyNone, auto_replace |-> PyNone,
      user_lock |-> FALSE,
      \* the exception that ended the parse, "" when there is none
      error |-> "" ]

\* a variant of _UserAction that stores the user also in sandbox mode
UserActionAlways(ns, value) == [ns EXCEPT !.user = value]

\* _UserAction.__call__, lines 119-122
UserAction(ns, value) ==
    IF ~ns.venv THEN [ns EXCEPT !.user = value] ELSE ns

\* a variant of _VenvAction that keeps a user set before it
VenvActionKeepsUser(ns) ==
    [ns EXCEPT !.venv = TRUE, !.user = IF ns.user # NONE THEN ns.user ELSE S_root,
               !.env = ns.env \o <<S_env_venv, S_env_rc>>]

\* _VenvAction.__call__, lines 124-129
VenvAction(ns) ==
    [ns EXCEPT !.venv = TRUE, !.user = S_root,
               !.env = ns.env \o <<S_env_venv, S_env_rc>>]

\* _X11Action.__call__, lines 131-141; x11_ok: xauth succeeded and
\* /tmp/.X11-unix exists
X11Action(ns, x11_ok) ==
    IF x11_ok
    THEN [ns EXCEPT !.x11 = TRUE, !.env = ns.env \o <<S_env_display>>,
                    !.volume = ns.volume \o <<S_x11_volume, XAUTH_FILE \o S_xauthority_dest>>]
    ELSE ns

\* _DoodAction.__call__, lines 143-146
DoodAction(ns) ==
    [ns EXCEPT !.dood = TRUE, !.volume = ns.volume \o <<S_dood_volume>>]

\* _CopyAction.__call__, lines 148-151
CopyAction(ns, value) ==
    [ns EXCEPT !.volume = ns.volume \o UpdateVolumePaths(<<value>>, TRUE)]

\* a variant of lines 99-104 that mounts the first path without looking for it
DevVolumesUnchecked(paths, is_copy, host_paths) ==
    UpdateVolumePaths(<<Head(paths) \o <<":">> \o Head(paths)>>, is_copy)

\* lines 99-104: the volumes of the developer config paths that exist on the host
RECURSIVE DevVolumes(_, _, _)
DevVolumes(paths, is_copy, host_paths) ==
    IF paths = <<>> THEN <<>>
    ELSE (IF Head(paths) \in host_paths
          THEN UpdateVolumePaths(<<Head(paths) \o <<":">> \o Head(paths)>>, is_copy)
          ELSE <<>>) \o DevVolumes(Tail(paths), is_copy, host_paths)

\* _DefaultsAction.__call__, lines 81-104
DefaultsAction(ns, x11_ok, host_paths) ==
    LET n1 == X11Action(DoodAction(VenvAction(ns)), x11_ok)
    IN  [n1 EXCEPT !.defaults = TRUE, !.interactive = TRUE, !.tty = TRUE,
                   !.rm = TRUE, !.init = TRUE, !.privileged = TRUE,
                   !.network = S_host, !.security_opt = [type |-> "str", val |-> S_seccomp],
                   !.detach_keys = S_detach_keys, !.hostname = HOST_NODE,
                   !.workdir = S_app,
                   !.volume = n1.volume \o <<n1.parse_cwd \o <<":">> \o S_app>>
                                \o DevVolumes(DevPathsMount, FALSE, host_paths)
                                \o DevVolumes(DevPathsCopy, TRUE, host_paths),
                   !.env = n1.env \o <<S_env_term>>]

\* what argparse does with one recognized option: the store, store_true and
\* append actions of _add_docker_args and of lines 534-564
ApplyToken(ns, t, x11_ok, host_paths) ==
    CASE t.opt = "--name"          -> [ns EXCEPT !.name = t.val]
      [] t.opt = "--interactive"   -> [ns EXCEPT !.interactive = TRUE]
      [] t.opt = "--tty"           -> [ns EXCEPT !.tty = TRUE]
      [] t.opt = "--detach"        -> [ns EXCEPT !.detach = TRUE]
      [] t.opt = "--network"       -> [ns EXCEPT !.network = t.val]
      [] t.opt = "--security-opt"  ->
            \* the append action copies the list and appends; on the string that
            \* line 93 stored, append raises AttributeError
            IF ns.security_opt.type = "list"
            THEN [ns EXCEPT !.security_opt.val = ns.security_opt.val \o <<t.val>>]
            ELSE [ns EXCEPT !.error = "AttributeError"]
      [] t.opt = "--volume"        -> [ns EXCEPT !.volume = ns.volume \o <<t.val>>]
      [] t.opt = "--env"           -> [ns EXCEPT !.env = ns.env \o <<t.val>>]
      [] t.opt = "--user"          -> UserAction(ns, t.val)
      [] t.opt = "--venv"          -> VenvAction(ns)
      [] t.opt = "--defaults"      -> DefaultsAction(ns, x11_ok, host_paths)
      [] t.opt = "--x11"           -> X11Action(ns, x11_ok)
      [] t.opt = "--dood"          -> DoodAction(ns)
      [] t.opt = "--copy"          -> CopyAction(ns, t.val)
      [] t.opt = "--_dockerw_parse_cwd_" -> [ns EXCEPT !.parse_cwd = t.val]
      [] t.opt = "--load"          -> [ns EXCEPT !.load = t.val]
      [] t.opt = "--disable-auto-load" -> [ns EXCEPT !.disable_auto_load = TRUE]
      [] t.opt = "--vscode"        -> [ns EXCEPT !.vscode = TRUE]
      [] t.opt = "--default-image" -> [ns EXCEPT !.default_image = t.val]
      [] t.opt = "--default-shell" -> [ns EXCEPT !.default_shell = t.val]
      [] t.opt = "--login-shell"   -> [ns EXCEPT !.login_shell = TRUE]
      [] t.opt = "--args-only"     -> [ns EXCEPT !.args_only = TRUE]
      [] t.opt = "--cache-cmd"     -> [ns EXCEPT !.cache_cmd = TRUE]
      [] t.opt = "--print-cmd"     -> [ns EXCEPT !.print_cmd = TRUE]
      [] t.opt = "--print-defaults" -> [ns EXCEPT !.print_defaults = TRUE]
      [] t.opt = "--prompt-banner" -> [ns EXCEPT !.prompt_banner = t.val]
      [] t.opt = "--auto-attach"   -> [ns EXCEPT !.auto_attach = PyTrue]
      [] t.opt = "--auto-replace"  -> [ns EXCEPT !.auto_replace = PyTrue]
      [] t.opt = "--user-lock"     -> [ns EXCEPT !.user_lock = TRUE]

\* run_parser.parse_args(args), line 566: the options are applied in the
\* order in which they occur
RECURSIVE ParseArgs(_, _, _, _)
ParseArgs(tokens, ns, x11_ok, host_paths) ==
    IF tokens = <<>> \/ ns.error # "" THEN ns
    ELSE ParseArgs(Tail(tokens), ApplyToken(ns, Head(tokens), x11_ok, host_paths),
                   x11_ok, host_paths)

(***************************************************************************)
(* The inputs of the model: command lines, defaults documents, the engine's *)
(* inventory.                                                               *)
(***************************************************************************)
NameC == <<"c">>
NameD == <<"d">>
NameAnon == <<"x">>
UserV == <<"v">>
ImgA == <<"a">>
ImgANorm == S_docker_io \o <<"/", "a", ":">> \o S_latest
ImgB == <<"b", ":", "t">>
ImgBad == <<"A">>
CmdLs == <<"l", "s">>
DirW == CWD
DirQ == <<"/", "q">>
DirR == <<"/", "r">>
PathQSlash == <<"/", "q", "/">>
PathN == <<"/", "n">>
VolRw == <<"/", "d", ":", "/", "x", ":", "r", "w">>
VolRel == <<"d", ":", "/", "x">>
VolStagedRw == <<"/", "d", ":">> \o DOCKERW_VENV_COPY_PATH \o <<"/", "x", ":", "r", "w">>
VolStaged == <<"/", "d", ":">> \o DOCKERW_VENV_COPY_PATH \o <<"/", "x">>
VolHome == <<"~", "/", "s", ":", "~", "/", "s", ":", "r", "w", ",", "z">>
VolTmpHost == TMP_DOCKERW \o <<"/", "x", ":", "/", "y">>
VolTmpHostDir == TMP_DOCKERW \o <<":", "/", "y">>
VolTmpDest == <<"/", "d", ":">> \o TMP_DOCKERW \o <<"/", "x">>
SecOptX == <<"x">>
NetN == <<"n">>

\* the options whose order on the command line matters
OrdTokens ==
    { Tok("--user", UserV), Flag("--venv"), Flag("--defaults"),
      Tok("--volume", VolRw), Tok("--volume", VolRel), Tok("--volume", VolStaged),
      Tok("--volume", VolTmpHost), Tok("--volume", VolTmpHostDir),
      Tok("--volume", VolTmpDest),
      Tok("--copy", VolRw), Tok("--copy", VolStagedRw), Tok("--copy", VolHome),
      Tok("--security-opt", SecOptX),
      Tok("--default-shell", <<"b", "a", "s", "h">>), Tok("--default-shell", <<"z", "s", "h">>) }

\* all sequences over S of length at most n
SeqsUpTo(S, n) == UNION { [1..k -> S] : k \in 0..n }

\* <<t>> when b holds, else the empty sequence
Opt(b, t) == IF b THEN <<t>> ELSE <<>>

\* the bodies a defaults document may have (its dockerw_defaults list)
DocBodies ==
    { <<>>, <<Tok("--load", DirQ)>>, <<Tok("--load", PathQSlash)>>,
      <<Tok("--load", DirR)>>, <<Tok("--load", DirW)>>, <<Tok("--load", PathN)>>,
      <<Flag("--venv"), Tok("--user", UserV)>> }

\* the file systems: which of the directories hold a .dockerw/defaults.py
FileSystems == UNION { [D -> DocBodies] : D \in SUBSET {DirW, DirQ, DirR} }

\* one container of the engine's inventory
Container(name, image, state) == [name |-> name, image |-> image, status |-> state]

Inventories ==
    { <<>> }
    \cup { <<Container(NameC, i, st)>> : i \in {ImgA, ImgANorm, ImgB}, st \in {"running", "exited"} }
    \cup { <<Container(NameC, ImgA, "paused")>>, <<Container(NameC, ImgANorm, "created")>>,
           <<Container(NameD, ImgANorm, "running")>>,
           <<Container(NameD, ImgA, "exited"), Container(NameC, ImgB, "running")>> }

VARIABLES
    argv,           \* sys.argv[2:]: flags, the positionals and the words after "--"
    fs,             \* directory -> body of its .dockerw/defaults.py
    host_paths,     \* the optional developer config paths that exist on the host
    engine,         \* the engine's inventory of containers
    pc,             \* the position in dockerw_run
    pass,           \* the number of the running call of dockerw_run
    new_load_args,  \* line 508
    loaded_paths,   \* line 509
    load,           \* load_args.load, lines 514-518
    args,           \* the namespace args, line 566
    image_parts,    \* image_repo, image_name, image_tag, lines 571-574
    docker_cmd,     \* line 577
    container_name, \* line 578
    current_image,  \* current_container_name_image, lines 579-594
    is_running,     \* is_current_container_name_running
    is_attach_container,
    is_replace_container,
    invocation,     \* what is printed or handed to the engine
    status,         \* "running", or how the process ended
    log,            \* the effects and outputs so far, in order
    box             \* the container the generated scripts run in

vars == <<box, argv, fs, host_paths, engine, pc, pass, new_load_args, loaded_paths, load,
          args, image_parts, docker_cmd, container_name, current_image, is_running,
          is_attach_container, is_replace_container, invocation, status, log>>

NoParts == [registry |-> <<>>, name |-> <<>>, tag |-> <<>>]
\* no container of the generated scripts is looked at
NoBox == [phase |-> "none"]
NoInvocation == [cmd |-> "none", bare |-> FALSE, args |-> <<>>, image |-> <<>>]

\* the state at the entry of dockerw_run
Entry ==
    /\ pc = "load"
    /\ new_load_args = <<>>
    /\ loaded_paths = << <<>> >>
    /\ load = <<>>
    /\ args = Namespace
    /\ image_parts = NoParts
    /\ docker_cmd = "run"
    /\ container_name = <<>>
    /\ current_image = <<>>
    /\ is_running = TRUE
    /\ is_attach_container = PyFalse
    /\ is_replace_container = PyFalse
    /\ invocation = NoInvocation
    /\ status = "running"

\* command lines that vary the reconciliation flags
InitReconcile ==
    /\ \E aa, ar, det, inter, venv, named \in BOOLEAN :
       \E mode \in { <<>>, <<Flag("--print-cmd")>>, <<Flag("--cache-cmd")>>,
                      <<Flag("--args-only")>>, <<Flag("--args-only"), Flag("--cache-cmd")>> } :
       \E image \in { <<>>, <<ImgA>>, <<ImgA, CmdLs>> } :
          argv = [flags |-> Opt(aa, Flag("--auto-attach")) \o Opt(ar, Flag("--auto-replace"))
                            \o Opt(det, Flag("--detach")) \o Opt(inter, Flag("--interactive"))
                            \o Opt(venv, Flag("--venv")) \o Opt(named, Tok("--name", NameC))
                            \o mode,
                  image |-> image, cmds |-> <<>>]
    /\ fs = << >>
    /\ host_paths = {}
    /\ engine \in Inventories

\* command lines that vary the order of the order-sensitive options
InitOrder ==
    /\ \E ord \in SeqsUpTo(OrdTokens, MaxTok) : \E aa \in BOOLEAN :
       \E image \in { <<>>, <<ImgA>>, <<ImgA, CmdLs>> } :
          argv = [flags |-> ord \o <<Tok("--name", NameC)>> \o Opt(aa, Flag("--auto-attach")),
                  image |-> image, cmds |-> <<>>]
    /\ fs = << >>
    /\ host_paths = {}
    /\ engine \in { <<>>, <<Container(NameC, ImgANorm, "running")>> }

\* file systems and command lines that vary what the load loop finds
InitLoad ==
    /\ \E fl \in { <<>>, <<Tok("--load", DirQ)>>, <<Tok("--load", PathN)>>,
                   <<Flag("--disable-auto-load")>>, <<Tok("--user", UserV)>>,
                   <<Flag("--venv")>> } :
       \E image \in { <<>>, <<ImgA>>, <<ImgBad>> } :
          argv = [flags |-> fl, image |-> image, cmds |-> <<>>]
    /\ fs \in FileSystems
    /\ host_paths = {}
    /\ engine = <<>>

\* hosts that vary which developer config paths exist
InitHost ==
    /\ \E fl \in { <<Flag("--defaults")>>, <<Flag("--defaults"), Flag("--print-cmd")>> } :
          argv = [flags |-> fl, image |-> <<ImgA>>, cmds |-> <<CmdLs>>]
    /\ fs = << >>
    /\ host_paths \in { {}, {DevPathsCopy[2]}, {DevPathsMount[5], DevPathsCopy[1]} }
    /\ engine = <<>>

\* command lines and a defaults document that set the same scalar options
ScalarTokens ==
    { Tok("--name", NameC), Tok("--name", NameD), Tok("--network", NetN),
      Tok("--user", UserV), Flag("--venv"), Flag("--defaults") }

InitScalar ==
    /\ \E fl \in SeqsUpTo(ScalarTokens, MaxTok) :
          argv = [flags |-> fl, image |-> <<ImgA>>, cmds |-> <<>>]
    /\ fs \in { << >>, [d \in {DirW} |-> <<Tok("--name", NameD), Tok("--network", NetN)>>],
                 \* a document in the parent directory with a relative volume
                 [d \in {<<"/">>} |-> <<Tok("--volume", VolRel), Flag("--defaults")>>],
                 \* and one that loads the document of another project
                 [d \in {<<"/">>, DirQ} |->
                     IF d = DirQ THEN <<Flag("--defaults"), Tok("--copy", VolRel)>>
                     ELSE <<Tok("--load", DirQ), Flag("--defaults")>>] }
    /\ host_paths = {}
    /\ engine = <<>>

Init ==
    /\ InitReconcile \/ InitOrder \/ InitLoad \/ InitHost \/ InitScalar
    /\ box = NoBox
    /\ pass = 1
    /\ log = <<>>
    /\ Entry

(***************************************************************************)
(* What the process writes and does to the world, in order: an event names  *)
(* the call of dockerw_run it happened in and the channel it went to        *)
(* ("stdout", "stderr", "engine", "files" or "none").                       *)
(***************************************************************************)
Ev(e, out, info) == [ev |-> e, pass |-> pass, out |-> out, info |-> info]

\* exit(message): the message, which quotes value, goes to the error stream
\* and the exit code is 1
Fatal(message, value) ==
    /\ status' = "fatal"
    /\ pc' = "done"
    /\ log' = Append(log, [ev |-> "exit", pass |-> pass, out |-> "stderr",
                           info |-> message, value |-> value])

(***************************************************************************)
(* The defaults load loop, lines 507-526.                                   *)
(***************************************************************************)
\* load_parser.parse_known_args, lines 510-514: --load keeps its last value
RECURSIVE LoadParse(_, _)
LoadParse(tokens, la) ==
    IF tokens = <<>> THEN la
    ELSE LET t == Head(tokens)
         IN  LoadParse(Tail(tokens),
                       IF t.opt = "--load" THEN [la EXCEPT !.load = t.val]
                       ELSE IF t.opt = "--disable-auto-load"
                       THEN [la EXCEPT !.disable_auto_load = TRUE]
                       ELSE la)

\* [pathlib.Path.cwd(), *pathlib.Path.cwd().parents], line 682
CwdAndParents == <<CWD, <<"/">> >>

\* find_nearest_defaults_file_path, lines 681-686, as the string of line 518:
\* the nearest directory that holds a defaults file, NONE when there is none
FindNearest(fsys) ==
    LET hits == SelectSeq(CwdAndParents, LAMBDA d : d \in DOMAIN fsys)
    IN  IF hits = <<>> THEN NONE ELSE hits[1]

\* parse_defaults_file(...).get('dockerw_defaults', ''), lines 688-697 and 223:
\* a file that does not exist gives {} and so no arguments
ParseDefaultsFile(dockerw_load_path, fsys) ==
    LET dir == PathResolve(dockerw_load_path, CWD)
    IN  IF dir \in DOMAIN fsys THEN fsys[dir] ELSE <<>>

\* _dockerw_load, lines 221-226
DockerwLoad(dockerw_load_path, fsys) ==
    <<Tok("--_dockerw_parse_cwd_", dockerw_load_path)>>
      \o ParseDefaultsFile(dockerw_load_path, fsys)
      \o <<Tok("--_dockerw_parse_cwd_", CWD)>>

\* a variant of the test of line 519 that looks at the last loaded path only
AlreadyLoadedLastOnly(target, paths) == target = paths[Len(paths)]

\* line 519, negated: the load target was loaded before
AlreadyLoaded(target, paths) == InList(target, paths)

\* lines 514-518: the load target of this iteration
LoadTarget(tokens, fsys) ==
    LET la      == LoadParse(tokens, [load |-> <<>>, disable_auto_load |-> FALSE])
        nearest == FindNearest(fsys)
    IN  IF la.load = <<>> /\ ~la.disable_auto_load /\ nearest # NONE
        THEN nearest ELSE la.load

\* one iteration of the loop of lines 513-523
LoadStep ==
    /\ pc = "load"
    /\ LET target == LoadTarget(new_load_args \o argv.flags, fs)
       IN  /\ load' = target
           /\ IF ~AlreadyLoaded(target, loaded_paths)
              THEN /\ new_load_args' = new_load_args \o DockerwLoad(target, fs)
                   /\ loaded_paths' = Append(loaded_paths, target)
                   /\ log' = Append(log, Ev("load", "files", "defaults"))
                   /\ pc' = "load"
              ELSE /\ pc' = "resolve"
                   /\ UNCHANGED <<new_load_args, loaded_paths, log>>
    /\ UNCHANGED <<box, argv, fs, host_paths, engine, pass, args, image_parts, docker_cmd,
                   container_name, current_image, is_running, is_attach_container,
                   is_replace_container, invocation, status>>

(***************************************************************************)
(* Argument resolution, lines 524-575.                                      *)
(***************************************************************************)
\* lines 567-575: the positional list after the default image and the words
\* after "--" are added
ImageList(parsed, cmds) ==
    LET image1 == IF parsed.image = <<>> /\ parsed.default_image # NONE
                  THEN <<parsed.default_image>> ELSE parsed.image
    IN  IF image1 # <<>> THEN image1 \o cmds ELSE image1

\* the outcomes of the host query of lines 133-137, made when --x11 or
\* --defaults occurs
X11Outcomes(tokens) ==
    IF \E i \in 1..Len(tokens) : tokens[i].opt \in {"--x11", "--defaults"}
    THEN BOOLEAN ELSE {FALSE}

Resolve ==
    /\ pc = "resolve"
    /\ \E x11_ok \in X11Outcomes(new_load_args \o argv.flags) :
        LET parsed == ParseArgs(new_load_args \o argv.flags,
                                [Namespace EXCEPT !.image = argv.image], x11_ok, host_paths)
            image  == ImageList(parsed, argv.cmds)
        IN  IF parsed.error # ""
            THEN \* the exception of an argparse action is not caught: a traceback
                 /\ status' = "crash"
                 /\ pc' = "done"
                 /\ log' = Append(log, Ev("exit", "stderr", "traceback"))
                 /\ UNCHANGED <<args, image_parts>>
            ELSE IF image # <<>>
            THEN LET p == ParseImageName(image[1])
                 IN  IF p.ok
                     THEN /\ args' = [parsed EXCEPT !.image = <<RenderImage(p)>> \o Tail(image)]
                          /\ image_parts' = [registry |-> p.registry, name |-> p.name, tag |-> p.tag]
                          /\ log' = Append(log, Ev("resolve", "none", "image"))
                          /\ pc' = "reconcile"
                          /\ UNCHANGED status
                     ELSE /\ Fatal("invalid image name", image[1])
                          /\ UNCHANGED <<args, image_parts>>
            ELSE /\ args' = [parsed EXCEPT !.image = << <<>> >>]
                 /\ image_parts' = NoParts
                 /\ log' = Append(log, Ev("resolve", "none", "no image"))
                 /\ pc' = "reconcile"
                 /\ UNCHANGED status
    /\ UNCHANGED <<box, argv, fs, host_paths, engine, pass, new_load_args, loaded_paths, load,
                   docker_cmd, container_name, current_image, is_running,
                   is_attach_container, is_replace_container, invocation>>

(***************************************************************************)
(* Container reconciliation, lines 577-626.                                 *)
(***************************************************************************)
\* the status filters of lines 581 and 586
ActiveLike == {"restarting", "running", "removing", "paused"}
InactiveLike == {"created", "exited", "dead"}

\* docker ps -a --filter status=... --format {{.Names}},{{.Image}}: one line
\* for each container in one of the states
PsLines(inventory, states) ==
    LET sel == SelectSeq(inventory, LAMBDA c : c.status \in states)
    IN  [i \in 1..Len(sel) |-> sel[i].name \o <<",">> \o sel[i].image]

\* a variant of the filter that takes the line of any container
LineHasNameAny(line, name) == Len(Split(line, ",")) >= 1

\* the filter of lines 583 and 588: the line is of the container named name
LineHasName(line, name) == Split(line, ",")[1] = name

\* lines 583 and 588: the images of the lines of the container named name
ImagesOfName(lines, name) ==
    LET sel == SelectSeq(lines, LAMBDA l : LineHasName(l, name))
    IN  [i \in 1..Len(sel) |-> LET f == Split(sel[i], ",") IN f[Len(f)]]

\* lines 580-589: is_current_container_name_running and
\* current_container_name_image
QueryInventory(inventory, name) ==
    LET active == ImagesOfName(PsLines(inventory, ActiveLike), name)
    IN  IF active # <<>>
        THEN [running |-> TRUE, image |-> active[1]]
        ELSE [running |-> FALSE,
              image |-> (ImagesOfName(PsLines(inventory, InactiveLike), name) \o << <<>> >>)[1]]

\* what a user may type at a prompt: nothing, or something starting with y or n
\* (after any other answer the prompt is repeated, lines 237-239)
Typed == {"", "y", "n"}

\* what input() may return at a prompt; nothing is read when the prompt is not
\* asked or the call is not interactive (lines 232-235)
ReadFromStdin(asked, is_interactive) == IF asked /\ is_interactive THEN Typed ELSE {""}

\* a variant of _yes_no_prompt whose answer without input is yes
YesNoPromptYes(answer_default, is_interactive, typed) ==
    IF is_interactive /\ typed # "" THEN typed = "y" ELSE TRUE

\* _yes_no_prompt, lines 228-240
YesNoPrompt(answer_default, is_interactive, typed) ==
    IF is_interactive /\ typed # "" THEN typed = "y" ELSE answer_default

\* a variant of the condition of line 595 that rules every attach out
AttachRuledOutAlways(same_image, running) == TRUE

\* a variant of the condition of line 595 that leaves the container's state out
AttachRuledOutByImage(same_image, running) == ~same_image

\* line 595: the condition under which attaching is ruled out
AttachRuledOut(same_image, running) == ~same_image \/ ~running

\* line 605: the attach prompt is asked
AsksAttach(attach, replace) == attach = PyNone /\ replace = PyNone

\* lines 590-607 and 623-626: is_attach_container and is_replace_container,
\* with the warnings written and the prompts asked on the way
ReconcileFlags(has_container, same_image, running, auto_attach, auto_replace, interactive, typedAttach, typedReplace) ==
    IF ~has_container
    THEN [attach |-> PyFalse, replace |-> PyFalse, warned |-> FALSE,
          asked_attach |-> FALSE, asked_replace |-> FALSE]
    ELSE LET ruled   == AttachRuledOut(same_image, running)
             warned  == ruled /\ Truthy(auto_attach) /\ ~Truthy(auto_replace)
             a1      == IF ruled THEN PyFalse ELSE auto_attach
             askA    == AsksAttach(a1, auto_replace)
             a2      == IF askA
                        THEN PyBool(YesNoPrompt(interactive, interactive, typedAttach))
                        ELSE a1
             askR    == ~Truthy(a2) /\ auto_replace = PyNone
         IN  [attach |-> a2,
              replace |-> IF Truthy(a2) THEN PyFalse
                          ELSE IF askR
                          THEN PyBool(YesNoPrompt(FALSE, interactive, typedReplace))
                          ELSE auto_replace,
              warned |-> warned, asked_attach |-> askA, asked_replace |-> askR]

\* pathlib.PurePath(s).name
PathName(s) ==
    LET comps == SelectSeq(Split(s, "/"), LAMBDA p : p # <<>> /\ p # <<".">>)
    IN  IF comps = <<>> THEN <<>> ELSE comps[Len(comps)]

\* a variant of lines 610-611 that does not look at --default-shell
AttachImageShOnly(image, name, default_shell) ==
    IF Len(image) = 1 THEN <<name, S_sh>> ELSE <<name>> \o Tail(image)

\* lines 610-611: the command of an attach
AttachImage(image, name, default_shell) ==
    IF Len(image) = 1
    THEN <<name, IF default_shell # NONE THEN default_shell ELSE S_sh>>
    ELSE <<name>> \o Tail(image)

\* line 612: the command of the attach is a bare shell
IsBareShell(image) == Len(image) = 2 /\ PathName(image[2]) \in DOCKERW_VENV_SHELLS

S_stty_init == <<"D", "O", "C", "K", "E", "R", "W", "_", "S", "T", "T", "Y", "_", "I", "N", "I", "T", "=",
                 "r", "o", "w", "s", " ", "2", "4", " ", "c", "o", "l", "s", " ", "8", "0">>

\* a variant of lines 618-622 that takes whatever user the artifact names
AttachArgsAnyUser(ns, name, typedDetach, user_in_container) ==
    LET image == AttachImage(ns.image, name, ns.default_shell)
        n1 == [ns EXCEPT !.image = image]
        n2 == IF IsBareShell(image)
              THEN [n1 EXCEPT !.detach = FALSE, !.env = n1.env \o <<S_stty_init>>]
              ELSE IF n1.detach
              THEN [n1 EXCEPT !.detach = YesNoPrompt(TRUE, n1.interactive, typedDetach)]
              ELSE n1
    IN  IF n2.venv /\ user_in_container # NONE
        THEN [n2 EXCEPT !.user = user_in_container] ELSE n2

\* lines 608-622: the namespace rewritten for an attach; user_in_container
\* is the user the HOME line of the container's venv.sh names, NONE without one
AttachArgs(ns, name, typedDetach, user_in_container) ==
    LET image == AttachImage(ns.image, name, ns.default_shell)
        n1 == [ns EXCEPT !.image = image]
        n2 == IF IsBareShell(image)
              THEN [n1 EXCEPT !.detach = FALSE, !.env = n1.env \o <<S_stty_init>>]
              ELSE IF n1.detach
              THEN [n1 EXCEPT !.detach = YesNoPrompt(TRUE, n1.interactive, typedDetach)]
              ELSE n1
    IN  IF n2.venv /\ user_in_container = DOCKERW_UNAME
        THEN [n2 EXCEPT !.user = DOCKERW_UNAME] ELSE n2

\* a variant of lines 596-626 that writes no warning
ReconcileEventsQuiet(f, running, asks_detach, is_interactive) ==
    Opt(f.asked_attach, Ev("prompt", "stdout", "attach"))
    \o Opt(f.asked_attach /\ is_interactive, Ev("input", "stdin", "attach"))
    \o Opt(asks_detach, Ev("prompt", "stdout", "detach"))
    \o Opt(asks_detach /\ is_interactive, Ev("input", "stdin", "detach"))
    \o Opt(f.asked_replace, Ev("prompt", "stdout", "replace"))
    \o Opt(f.asked_replace /\ is_interactive, Ev("input", "stdin", "replace"))

\* the events of lines 596-606 and 617-626, in the order of the code; a prompt
\* reads the input only when the call is interactive (lines 232-235)
ReconcileEvents(f, running, asks_detach, is_interactive) ==
    (IF f.warned
     THEN <<Ev("warning", "stderr", IF running THEN "different image" ELSE "non-running state"),
            Ev("warning", "stderr", "disabled auto-attach")>>
     ELSE <<>>)
    \o Opt(f.asked_attach, Ev("prompt", "stdout", "attach"))
    \o Opt(f.asked_attach /\ is_interactive, Ev("input", "stdin", "attach"))
    \o Opt(asks_detach, Ev("prompt", "stdout", "detach"))
    \o Opt(asks_detach /\ is_interactive, Ev("input", "stdin", "detach"))
    \o Opt(f.asked_replace, Ev("prompt", "stdout", "replace"))
    \o Opt(f.asked_replace /\ is_interactive, Ev("input", "stdin", "replace"))

\* the outcome that docker_cmd and is_replace_container stand for after
\* lines 577-626: exec is an attach, a removal before the run a replace
DecisionOf(cmd, replace) ==
    IF cmd = "exec" THEN "Attach"
    ELSE IF Truthy(replace) THEN "Replace" ELSE "FreshRun"

\* what the inventory really holds for a name: "active", "inactive" or "absent"
Lifecycle(inventory, name) ==
    IF \E i \in 1..Len(inventory) :
          inventory[i].name = name /\ inventory[i].status \in ActiveLike
    THEN "active"
    ELSE IF \E i \in 1..Len(inventory) : inventory[i].name = name
    THEN "inactive" ELSE "absent"

Reconcile ==
    /\ pc = "reconcile"
    /\ LET name == IF args.name # NONE THEN args.name ELSE <<>>
           q    == QueryInventory(engine, name)
           has  == q.image # <<>>
           cur  == ParseImageName(q.image)
       IN  IF has /\ ~cur.ok
           THEN /\ Fatal("invalid image name", q.image)
                /\ UNCHANGED <<args, docker_cmd, container_name, current_image, is_running,
                               is_attach_container, is_replace_container>>
           ELSE
             LET image == IF has THEN RenderImage(cur) ELSE <<>>
                 same  == image = args.image[1]
                 seen  == Ev("inventory", "none", Lifecycle(engine, name))
                 shell == IsBareShell(AttachImage(args.image, name, args.default_shell))
                 f0    == ReconcileFlags(has, same, q.running, args.auto_attach,
                                         args.auto_replace, args.interactive, "", "")
             IN
             \E typedAttach \in ReadFromStdin(f0.asked_attach, args.interactive) :
             LET f1 == ReconcileFlags(has, same, q.running, args.auto_attach,
                                      args.auto_replace, args.interactive, typedAttach, "")
                 attach == Truthy(f1.attach)
             IN
             \E typedReplace \in ReadFromStdin(f1.asked_replace, args.interactive) :
             \E typedDetach \in ReadFromStdin(attach /\ ~shell /\ args.detach, args.interactive) :
             \E stty_ok \in (IF attach /\ shell THEN BOOLEAN ELSE {TRUE}) :
             \E user_in_container \in (IF attach /\ args.venv
                                       THEN {NONE, DOCKERW_UNAME, UserV} ELSE {NONE}) :
               LET f == ReconcileFlags(has, same, q.running, args.auto_attach,
                                       args.auto_replace, args.interactive,
                                       typedAttach, typedReplace)
               IN  /\ container_name' = name
                   /\ current_image' = image
                   /\ is_running' = q.running
                   /\ is_attach_container' = f.attach
                   /\ is_replace_container' = f.replace
                   /\ docker_cmd' = IF attach THEN "exec" ELSE "run"
                   /\ IF ~stty_ok
                      THEN \* line 614: stty size prints nothing and the unpacking raises
                           /\ args' = [args EXCEPT !.image = AttachImage(args.image, name, args.default_shell),
                                                   !.detach = FALSE]
                           /\ status' = "crash"
                           /\ pc' = "done"
                           /\ log' = log \o <<seen>> \o ReconcileEvents(f, q.running, FALSE, args.interactive)
                                       \o <<Ev("reconcile", "none", "Attach"),
                                            Ev("exit", "stderr", "traceback")>>
                      ELSE /\ args' = IF attach
                                      THEN AttachArgs(args, name, typedDetach, user_in_container)
                                      ELSE args
                           /\ log' = log \o <<seen>>
                                       \o ReconcileEvents(f, q.running, attach /\ ~shell /\ args.detach, args.interactive)
                                       \o Opt(attach /\ args.venv, Ev("artifact", "none", user_in_container))
                                       \o <<Ev("reconcile", "none",
                                               DecisionOf(IF attach THEN "exec" ELSE "run", f.replace))>>
                           /\ pc' = "check"
                           /\ UNCHANGED status
    /\ UNCHANGED <<box, argv, fs, host_paths, engine, pass, new_load_args, loaded_paths, load,
                   image_parts, invocation>>

(***************************************************************************)
(* _parsed_args_to_list, lines 183-201.  The list is modelled as the        *)
(* sequence of its options (name and value) and, apart, its positionals.    *)
(***************************************************************************)
\* a variant of line 196 without set(): every value is kept
DedupKeepsAll(q) == q

\* list(set(...)) of line 196: each value once (the order of a Python set is
\* not modelled: the first occurrences are kept in their order)
RECURSIVE Dedup(_)
Dedup(q) ==
    IF q = <<>> THEN <<>>
    ELSE LET r == Dedup(SubSeq(q, 1, Len(q) - 1))
         IN  IF InList(q[Len(q)], r) THEN r ELSE Append(r, q[Len(q)])

\* lines 191-192: a string option
StrArg(opt, value) == IF value # NONE THEN <<Tok(opt, value)>> ELSE <<>>
\* lines 197-198: a store_true option
BoolArg(opt, value) == IF value THEN <<Flag(opt)>> ELSE <<>>
\* lines 193-196: a list option
ListArg(opt, values) == Dedup([i \in 1..Len(values) |-> Tok(opt, values[i])])

\* the options of the list, for the arguments that are not dockerw's own
\* (line 187), in the order of the namespace
ParsedArgsToList(ns) ==
    BoolArg("--detach", ns.detach) \o StrArg("--detach-keys", ns.detach_keys)
    \o StrArg("--entrypoint", ns.entrypoint) \o ListArg("--env", ns.env)
    \o StrArg("--hostname", ns.hostname) \o BoolArg("--init", ns.init)
    \o BoolArg("--interactive", ns.interactive) \o StrArg("--name", ns.name)
    \o StrArg("--network", ns.network) \o BoolArg("--privileged", ns.privileged)
    \o BoolArg("--rm", ns.rm)
    \o (IF ns.security_opt.type = "str" THEN StrArg("--security-opt", ns.security_opt.val)
        ELSE ListArg("--security-opt", ns.security_opt.val))
    \o BoolArg("--tty", ns.tty)
    \o ListArg("--volume", UpdateVolumePaths(ns.volume, FALSE))
    \o StrArg("--workdir", ns.workdir) \o StrArg("--user", ns.user)

\* lines 199-200: the positionals of the list
ParsedImage(ns) == IF ns.image # << <<>> >> THEN ns.image ELSE <<>>

\* the options docker exec declares (exec_parser, lines 528-530)
ExecOptions == {"--detach", "--detach-keys", "--env", "--interactive", "--privileged",
                "--tty", "--user", "--workdir"}

\* lines 637-639 and 669-671: the list parsed again by exec_parser, which
\* keeps the options docker exec knows
ExecArgs(list) == SelectSeq(list, LAMBDA t : t.opt \in ExecOptions)

\* the command of lines 640, 674, 676 and 678
Invocation(cmd, ns, is_args_only) ==
    [cmd |-> cmd, bare |-> is_args_only,
     args |-> IF cmd = "exec" THEN ExecArgs(ParsedArgsToList(ns)) ELSE ParsedArgsToList(ns),
     image |-> ParsedImage(ns)]

(***************************************************************************)
(* The reserved-path guard and the print modes, lines 628-647.              *)
(***************************************************************************)
\* a guard that only looks for paths below /tmp/dockerw
UsesTmpDockerwBelow(vol) ==
    /\ StartsWith(vol, TMP_DOCKERW)
    /\ Len(vol) > Len(TMP_DOCKERW)
    /\ vol[Len(TMP_DOCKERW) + 1] = "/"

\* re.match(r'/tmp/dockerw[/:]', vol), line 628
UsesTmpDockerw(vol) ==
    /\ StartsWith(vol, TMP_DOCKERW)
    /\ Len(vol) > Len(TMP_DOCKERW)
    /\ vol[Len(TMP_DOCKERW) + 1] \in {"/", ":"}

\* a variant of line 631 that knows --print-cmd only
PrintsOnlyPrintCmd(ns) == ns.print_cmd

\* line 631
PrintsOnly(ns) == ns.print_cmd \/ (ns.args_only /\ ~ns.cache_cmd)

Guard ==
    /\ pc = "check"
    /\ IF \E i \in 1..Len(args.volume) : UsesTmpDockerw(args.volume[i])
       THEN /\ Fatal("volume uses /tmp/dockerw", SelectSeq(args.volume, UsesTmpDockerw)[1])
            /\ UNCHANGED invocation
       ELSE IF PrintsOnly(args)
       THEN /\ invocation' = Invocation(docker_cmd, args, args.args_only)
            /\ log' = log \o Opt(Truthy(is_replace_container) /\ ~args.args_only,
                                 Ev("print", "stdout", "docker rm -f"))
                          \o <<Ev("print", "stdout", "command"), Ev("exit", "none", "0")>>
            /\ status' = "exit0"
            /\ pc' = "done"
       ELSE IF args.print_defaults
       THEN /\ log' = log \o <<Ev("print", "stdout", "defaults"), Ev("exit", "none", "0")>>
            /\ status' = "exit0"
            /\ pc' = "done"
            /\ UNCHANGED invocation
       ELSE /\ pc' = "sweep"
            /\ UNCHANGED <<invocation, log, status>>
    /\ UNCHANGED <<box, argv, fs, host_paths, engine, pass, new_load_args, loaded_paths, load,
                   args, image_parts, docker_cmd, container_name, current_image, is_running,
                   is_attach_container, is_replace_container>>

\* a sweep that goes on to the synthesis whatever the image
SweepNoShortCircuit ==
    /\ pc = "sweep"
    /\ log' = Append(log, Ev("sweep", "files", "find -delete"))
    /\ pc' = "synth"
    /\ UNCHANGED <<box, argv, fs, host_paths, engine, pass, new_load_args, loaded_paths, load,
                   args, image_parts, docker_cmd, container_name, current_image, is_running,
                   is_attach_container, is_replace_container, invocation, status>>

(***************************************************************************)
(* The sweep of stale staging entries and the exit without an image,        *)
(* lines 648-650.                                                           *)
(***************************************************************************)
Sweep ==
    /\ pc = "sweep"
    /\ IF args.image[1] = <<>>
       THEN /\ log' = log \o <<Ev("sweep", "files", "find -delete"), Ev("exit", "none", "0")>>
            /\ status' = "exit0"
            /\ pc' = "done"
       ELSE /\ log' = Append(log, Ev("sweep", "files", "find -delete"))
            /\ pc' = "synth"
            /\ UNCHANGED status
    /\ UNCHANGED <<box, argv, fs, host_paths, engine, pass, new_load_args, loaded_paths, load,
                   args, image_parts, docker_cmd, container_name, current_image, is_running,
                   is_attach_container, is_replace_container, invocation>>

(***************************************************************************)
(* Bootstrap synthesis, lines 651-663.                                      *)
(***************************************************************************)
S_env_img == <<"D", "O", "C", "K", "E", "R", "W", "_", "V", "E", "N", "V", "_", "I", "M", "G">>
\* tempfile.NamedTemporaryFile(dir='/tmp/dockerw'): a name no earlier call used
EntrypointName(n) == TMP_DOCKERW \o <<"/", "t", "m", "p", ToString(n)>>

\* a variant of the condition of line 651 that leaves the command out
SynthesizesAnyCmd(cmd, ns) == ns.venv

\* line 651: the condition under which the artifacts are written
Synthesizes(cmd, ns) == cmd = "run" /\ ns.venv

\* lines 652-662: the namespace after the three artifacts are written
\* (_write_venv_sh line 305, _write_venv_rc_sh line 386,
\* _write_venv_entrypoint lines 499-500)
SynthArgs(ns, parts, file) ==
    [ns EXCEPT
       !.env = ns.env \o <<S_env_img \o <<"=">> \o ns.image[1],
                           S_env_img \o <<"_", "R", "E", "P", "O", "=">> \o parts.registry,
                           S_env_img \o <<"_", "N", "A", "M", "E", "=">> \o parts.name,
                           S_env_img \o <<"_", "T", "A", "G", "=">> \o parts.tag>>,
       !.volume = ns.volume
                  \o <<file \o <<"_", "s", "h", ":">> \o DOCKERW_VENV_SH_PATH \o <<":">> \o S_ro,
                       file \o <<"_", "r", "c", "_", "s", "h", ":">> \o DOCKERW_VENV_PATH
                            \o <<"/", "r", "c", ".", "s", "h", ":">> \o S_ro,
                       S_tmp_volume>>,
       !.entrypoint = file]

Synthesize ==
    /\ pc = "synth"
    /\ IF Synthesizes(docker_cmd, args)
       THEN /\ args' = SynthArgs(args, image_parts, EntrypointName(pass))
            /\ log' = log \o <<Ev("write", "files", "venv.sh"), Ev("write", "files", "rc.sh"),
                               Ev("write", "files", "entrypoint")>>
       ELSE UNCHANGED <<args, log>>
    /\ pc' = "remove"
    /\ UNCHANGED <<box, argv, fs, host_paths, engine, pass, new_load_args, loaded_paths, load,
                   image_parts, docker_cmd, container_name, current_image, is_running,
                   is_attach_container, is_replace_container, invocation, status>>

(***************************************************************************)
(* Removal and dispatch, lines 664-679.                                     *)
(***************************************************************************)
\* a variant of the condition of line 666 that removes when not replacing
RemovesContainerInverted(replace) == ~Truthy(replace)

\* line 666: the condition under which docker rm -f is run
RemovesContainer(replace) == Truthy(replace)

\* docker rm -f name
EngineRemove(inventory, name) == SelectSeq(inventory, LAMBDA c : c.name # name)

Remove ==
    /\ pc = "remove"
    /\ IF RemovesContainer(is_replace_container)
       THEN /\ engine' = EngineRemove(engine, container_name)
            /\ log' = Append(log, Ev("rm", "engine", "docker rm -f"))
       ELSE UNCHANGED <<engine, log>>
    /\ pc' = "dispatch"
    /\ UNCHANGED <<box, argv, fs, host_paths, pass, new_load_args, loaded_paths, load,
                   args, image_parts, docker_cmd, container_name, current_image, is_running,
                   is_attach_container, is_replace_container, invocation, status>>

\* line 673: the run is made in a subprocess and dockerw_run is called again
RunsThenReenters(cmd, ns) == cmd = "run" /\ ns.detach /\ Truthy(ns.auto_attach)

\* lines 677-679
DispatchCached ==
    /\ pc = "dispatch"
    /\ args.cache_cmd
    /\ invocation' = Invocation(docker_cmd, args, args.args_only)
    /\ log' = log \o <<Ev("print", "stdout", "command"), Ev("exit", "none", "0")>>
    /\ status' = "exit0"
    /\ pc' = "done"
    /\ UNCHANGED <<box, argv, fs, host_paths, engine, pass, new_load_args, loaded_paths, load,
                   args, image_parts, docker_cmd, container_name, current_image, is_running,
                   is_attach_container, is_replace_container>>

\* the name the engine gives the container of a run
RunName(ns, n) == IF ns.name # NONE THEN ns.name ELSE NameAnon \o <<ToString(n)>>

\* the outcomes of docker run --detach: a name in use makes it fail; else it
\* fails for another reason, or the container is running, or it has exited
\* by the time the inventory is read again (and is gone with --rm)
RunOutcomes(inventory, ns, n) ==
    IF \E i \in 1..Len(inventory) : inventory[i].name = RunName(ns, n)
    THEN {inventory}
    ELSE {inventory,
          Append(inventory, Container(RunName(ns, n), ns.image[1], "running"))}
         \cup (IF ns.rm THEN {}
               ELSE {Append(inventory, Container(RunName(ns, n), ns.image[1], "exited"))})

\* line 674
RunDetached ==
    /\ pc = "dispatch"
    /\ ~args.cache_cmd
    /\ RunsThenReenters(docker_cmd, args)
    /\ engine' \in RunOutcomes(engine, args, pass)
    /\ invocation' = Invocation(docker_cmd, args, FALSE)
    /\ log' = Append(log, Ev("run", "engine", "subprocess"))
    /\ pc' = "reenter"
    /\ UNCHANGED <<box, argv, fs, host_paths, pass, new_load_args, loaded_paths, load,
                   args, image_parts, docker_cmd, container_name, current_image, is_running,
                   is_attach_container, is_replace_container, status>>

\* line 675: dockerw_run(sys.argv[2:]) starts over with fresh locals
Reenter ==
    /\ pc = "reenter"
    /\ pass < MaxPasses
    /\ pass' = pass + 1
    /\ pc' = "load"
    /\ new_load_args' = <<>>
    /\ loaded_paths' = << <<>> >>
    /\ load' = <<>>
    /\ args' = Namespace
    /\ image_parts' = NoParts
    /\ docker_cmd' = "run"
    /\ container_name' = <<>>
    /\ current_image' = <<>>
    /\ is_running' = TRUE
    /\ is_attach_container' = PyFalse
    /\ is_replace_container' = PyFalse
    /\ invocation' = NoInvocation
    /\ status' = "running"
    /\ UNCHANGED <<box, argv, fs, host_paths, engine, log>>

\* line 676: os.execvpe replaces the process
Execve ==
    /\ pc = "dispatch"
    /\ ~args.cache_cmd
    /\ ~RunsThenReenters(docker_cmd, args)
    /\ invocation' = Invocation(docker_cmd, args, FALSE)
    /\ log' = Append(log, Ev(docker_cmd, "engine", "execvpe"))
    /\ status' = "replaced"
    /\ pc' = "done"
    /\ UNCHANGED <<box, argv, fs, host_paths, engine, pass, new_load_args, loaded_paths, load,
                   args, image_parts, docker_cmd, container_name, current_image, is_running,
                   is_attach_container, is_replace_container>>

Next ==
    \/ LoadStep
    \/ Resolve
    \/ Reconcile
    \/ Guard
    \/ Sweep
    \/ Synthesize
    \/ Remove
    \/ DispatchCached
    \/ RunDetached
    \/ Reenter
    \/ Execve

Spec == Init /\ [][Next]_vars

\* ---------------------------------------------------------------------
\* The container side: what the generated entrypoint and the shell
\* interception wrapper do when they run (the text of the two scripts,
\* lines 246-303 and 465-496).

\* the privilege-dropping mechanisms in the order both scripts probe them
\* (lines 278-284 and 472-478)
Mechanisms == <<"chroot", "su_session", "su">>

\* a chain that falls back to the caller's identity when nothing works
PrivDropRootFallback(works) ==
    LET n == IF works["chroot"] THEN 1 ELSE IF works["su_session"] THEN 2 ELSE 3
    IN  [tried |-> SubSeq(Mechanisms, 1, n), via |-> Mechanisms[n],
         ran_as |-> IF works[Mechanisms[n]] THEN "target" ELSE "root"]

\* the chain of lines 278-284 (run_user_cmd, lines 472-478, is the same
\* chain): the first mechanism whose probe works is exec'ed; the last one is
\* exec'ed without a probe, so when it does not work either its failure is
\* the status of the script and nothing has run
PrivDrop(works) ==
    LET n == IF works["chroot"] THEN 1 ELSE IF works["su_session"] THEN 2 ELSE 3
    IN  [tried |-> SubSeq(Mechanisms, 1, n), via |-> Mechanisms[n],
         ran_as |-> IF works[Mechanisms[n]] THEN "target" ELSE "none"]

\* line 255: [ "$(id -u)" != UID ] && [ "$SUDO_UID" != UID ]
NeedsPrivDrop(invoker, sudo_uid_is_target) == invoker # "target" /\ ~sudo_uid_is_target

\* a marker that never locks
IsLockedNever(b) == FALSE

\* line 260: [ -s USERLOCK ], the marker file is not empty
IsLocked(b) == b.lock

\* nothing has run in the container yet
NoOut ==
    [who |-> "none", invoker |-> "none", sudo |-> FALSE, cmd |-> "", argstr |-> "",
     lock_before |-> FALSE, tried |-> <<>>, via |-> "none", works |-> [m \in {"chroot", "su_session", "su"} |-> FALSE],
     ran_as |-> "none", exit |-> "none", banner |-> FALSE, printed |-> ""]

\* one run of the wrapper (lines 247-302) in container b; c is the call: who
\* calls (id -u), whether SUDO_UID is the target uid, the name the wrapper was
\* called by, its arguments, whether DOCKERW_VENV_IS_VSCODE_INSTALL is set,
\* which mechanisms work and whether /app can be entered
WrapperRun(b, c) ==
    LET o == [NoOut EXCEPT !.who = "wrapper", !.invoker = c.invoker, !.sudo = c.sudo,
                           !.cmd = c.cmd, !.argstr = c.argstr, !.lock_before = b.lock,
                           !.works = c.works]
        drop == PrivDrop(c.works)
    IN  IF b.script.vscode /\ c.cmd = "getent" /\ c.argstr = "passwd root" /\ c.env_install
        THEN [b EXCEPT !.out = [o EXCEPT !.exit = "0", !.printed = "passwd"]]
        ELSE IF NeedsPrivDrop(c.invoker, c.sudo)
        THEN IF IsLocked(b)
             THEN [b EXCEPT !.out = [o EXCEPT !.exit = "1", !.banner = TRUE,
                                              !.printed = "Container shell is user locked."]]
             ELSE IF ~c.cd_ok
             THEN [b EXCEPT !.out = [o EXCEPT !.exit = "1"]]
             ELSE [b EXCEPT !.out = [o EXCEPT !.tried = drop.tried, !.via = drop.via,
                                              !.ran_as = drop.ran_as,
                                              !.exit = IF drop.ran_as = "none" THEN "fail" ELSE "own"]]
        ELSE IF c.cmd # "getent" /\ c.argstr = "--unlock"
        THEN [b EXCEPT !.lock = FALSE, !.out = [o EXCEPT !.exit = "0", !.printed = "userlock off"]]
        ELSE IF c.cmd # "getent" /\ c.argstr = "--lock"
        THEN [b EXCEPT !.lock = TRUE, !.out = [o EXCEPT !.exit = "0", !.printed = "userlock on"]]
        ELSE [b EXCEPT !.out = [o EXCEPT !.ran_as = c.invoker, !.exit = "own"]]

\* the calls of the wrapper that are told apart
WrapperCalls ==
    [invoker : {"target", "root", "other"}, sudo : BOOLEAN, cmd : {"sh", "getent"},
     argstr : {"", "--lock", "--unlock", "passwd root"}, env_install : BOOLEAN,
     works : [{"chroot", "su_session", "su"} -> BOOLEAN], cd_ok : BOOLEAN]

\* the call the entrypoint's last line ends in when the drop works: the
\* default command is $SHELL, a link to the wrapper, now under the target uid
ShellAsTarget(works) ==
    [invoker |-> "target", sudo |-> FALSE, cmd |-> "sh", argstr |-> "",
     env_install |-> FALSE, works |-> works, cd_ok |-> TRUE]

\* the entrypoint (lines 465-496) runs as the container's first process,
\* under root: it writes the lock marker and exec's the command through
\* run_user_cmd
EntrypointRun ==
    /\ box.phase = "created"
    /\ \E works \in [{"chroot", "su_session", "su"} -> BOOLEAN] :
         LET locked == [box EXCEPT !.lock = box.script.user_lock]
             drop == PrivDrop(works)
             ran == WrapperRun(locked, ShellAsTarget(works))
         IN  box' = IF drop.ran_as = "none"
                    THEN [locked EXCEPT !.phase = "exited",
                                        !.out = [NoOut EXCEPT !.who = "entry", !.invoker = "root",
                                                              !.lock_before = locked.lock,
                                                              !.works = works,
                                                              !.tried = drop.tried, !.via = drop.via,
                                                              !.exit = "fail"]]
                    ELSE [ran EXCEPT !.phase = "up",
                                     !.out = [ran.out EXCEPT !.who = "entry", !.invoker = "root",
                                                             !.tried = drop.tried, !.via = drop.via]]
    /\ UNCHANGED <<argv, fs, host_paths, engine, pass, pc, status, log, new_load_args, loaded_paths, load,
                   args, image_parts, docker_cmd, container_name, current_image, is_running,
                   is_attach_container, is_replace_container, invocation>>

\* a shell (or getent) is called in the container that is up
WrapperCall ==
    /\ box.phase = "up"
    /\ \E c \in WrapperCalls : box' = WrapperRun(box, c)
    /\ UNCHANGED <<argv, fs, host_paths, engine, pass, pc, status, log, new_load_args, loaded_paths, load,
                   args, image_parts, docker_cmd, container_name, current_image, is_running,
                   is_attach_container, is_replace_container, invocation>>

\* the containers of `dockerw run --venv [--user-lock] [--vscode] a`: the
\* scripts are written from the parsed flags
BoxInit ==
    /\ \E fl \in {<<>>, <<Flag("--user-lock")>>, <<Flag("--vscode")>>, <<Flag("--user-lock"), Flag("--vscode")>>} :
         argv = [flags |-> <<Flag("--venv")>> \o fl, image |-> <<ImgA>>, cmds |-> <<>>]
    /\ fs = << >> /\ host_paths = {} /\ engine = <<>>
    /\ pass = 1 /\ log = <<>> /\ Entry
    /\ LET ns == ParseArgs(argv.flags, Namespace, FALSE, {})
       IN  box = [phase |-> "created", lock |-> FALSE,
                  script |-> [user_lock |-> ns.user_lock, vscode |-> ns.vscode],
                  out |-> NoOut]
BoxSpec == BoxInit /\ [][EntrypointRun \/ WrapperCall]_vars

\* image references alone: every string of at most MaxImgLen characters of
\* the alphabet and the two references the documentation gives, each taken
\* through the load loop and the resolution
ImageStrings ==
    SeqsUpTo({"a", "A", ".", ":", "/"}, MaxImgLen)
    \cup { <<"n", "a", "m", "e">>,
           <<"r", "e", "g", "i", "s", "t", "r", "y", ".", "e", "x", "a", "m", "p", "l", "e",
             ".", "c", "o", "m", ":", "5", "0", "0", "0", "/", "n", "a", "m", "e", ":", "t", "a", "g">> }
ImageInit ==
    /\ \E s \in ImageStrings : argv = [flags |-> <<>>, image |-> <<s>>, cmds |-> <<>>]
    /\ fs = << >> /\ host_paths = {} /\ engine = <<>>
    /\ pass = 1 /\ log = <<>> /\ Entry /\ box = NoBox
ImageSpec == ImageInit /\ [][LoadStep \/ Resolve]_vars

\* the load loop alone: the while loop of line 513 runs its next iteration
\* until its break
LoadInit == InitLoad /\ pass = 1 /\ log = <<>> /\ Entry /\ box = NoBox
LoadSpec == LoadInit /\ [][LoadStep]_vars /\ WF_vars(LoadStep)

(***************************************************************************)
(* Helpers of the properties.                                               *)
(***************************************************************************)
\* the tokens run_parser parses in this call (line 524)
MergedTokens == new_load_args \o argv.flags

\* the events of the log that event i's call of dockerw_run produced
SamePass(i, j) == log[i].pass = log[j].pass

\* event i is the reconciliation decision d
Decided(i, d) == log[i].ev = "reconcile" /\ log[i].info = d

\* event i is a command handed to the engine
IsEngine(i, e) == log[i].ev = e /\ log[i].out = "engine"

\* the inventory holds an active-like container of the name whose normalized
\* image is the normalized requested image
ActiveSameImage(inventory, name, parts) ==
    \E i \in 1..Len(inventory) :
        /\ inventory[i].name = name
        /\ inventory[i].status \in ActiveLike
        /\ ParseImageName(inventory[i].image).ok
        /\ RenderImage(ParseImageName(inventory[i].image)) = RenderImage(parts)

\* the fields of a volume string: host path, container path, options
VolumeDest(vol) == (Split(vol, ":") \o << <<>> >>)[2]
VolumeOptions(vol) ==
    LET f == Split(vol, ":") IN IF Len(f) >= 3 /\ f[3] # <<>> THEN Split(f[3], ",") ELSE <<>>

\* path p is dir or lies under it
PathUnder(p, dir) ==
    StartsWith(p, dir) /\ (Len(p) = Len(dir) \/ p[Len(dir) + 1] = "/")

(***************************************************************************)
(* C1.  When the inventory holds no container of the target name, in        *)
(* either query, the decision is FreshRun: the command stays run, nothing   *)
(* is removed (nor printed as removed) and no prompt is asked, whatever     *)
(* --auto-attach and --auto-replace are.                                    *)
(***************************************************************************)
C1_NoContainerFreshRun ==
    /\ \A i \in 1..Len(log) :
         (log[i].ev = "inventory" /\ log[i].info = "absent")
         => \A j \in 1..Len(log) :
              SamePass(i, j)
              => /\ log[j].ev = "reconcile" => log[j].info = "FreshRun"
                 /\ log[j].ev \notin {"prompt", "rm", "exec"}
                 /\ ~(log[j].ev = "print" /\ log[j].info = "docker rm -f")
    /\ (pc \in {"check", "sweep", "synth", "remove"}
        /\ Lifecycle(engine, container_name) = "absent")
       => /\ docker_cmd = "run"
          /\ is_attach_container = PyFalse
          /\ is_replace_container = PyFalse

\* a run was dispatched with both flags given while only another container exists
C1_Witness ==
    /\ status = "replaced"
    /\ args.auto_attach = PyTrue /\ args.auto_replace = PyTrue
    /\ args.name = NameC
    /\ engine # <<>>
    /\ Lifecycle(engine, NameC) = "absent"
    /\ \E i \in 1..Len(log) : IsEngine(i, "run")

(***************************************************************************)
(* C2.  Attach is decided, and an exec printed or dispatched, only for a    *)
(* container found by the active-like query whose normalized image equals   *)
(* the normalized requested image; a container that is inactive-like or of  *)
(* another image leads to FreshRun or Replace.                              *)
(***************************************************************************)
C2_AttachOnlyActiveSameImage ==
    /\ (docker_cmd = "exec" \/ invocation.cmd = "exec" \/ Truthy(is_attach_container)
        \/ \E i \in 1..Len(log) : log[i].pass = pass /\ (IsEngine(i, "exec") \/ Decided(i, "Attach")))
       => ActiveSameImage(engine, container_name, image_parts)
    /\ \A i \in 1..Len(log) :
         (log[i].ev = "inventory" /\ log[i].info = "inactive")
         => \A j \in 1..Len(log) :
              SamePass(i, j) => ~Decided(j, "Attach") /\ ~IsEngine(j, "exec")

\* auto-attach was asked for a container of another image, the replace
\* prompt was answered yes
C2_Witness ==
    /\ pc = "check"
    /\ args.auto_attach = PyTrue /\ args.auto_replace = PyNone
    /\ is_running
    /\ current_image # <<>> /\ current_image # args.image[1]
    /\ is_replace_container = PyTrue

(***************************************************************************)
(* C3.  With sandbox mode and --auto-attach, a container of the name that   *)
(* is active-like and of the same normalized image makes the decision       *)
(* Attach; the three bootstrap artifacts are written only in a call whose   *)
(* command is run with sandbox mode on, all three or none, and never in a   *)
(* call that decided Attach.                                                *)
(***************************************************************************)
C3_AttachWithoutSynthesis ==
    /\ (pc = "check" /\ args.venv /\ args.auto_attach = PyTrue
        /\ ActiveSameImage(engine, container_name, image_parts))
       => docker_cmd = "exec"
    /\ \A i \in 1..Len(log) :
         log[i].ev = "write"
         => /\ \E j \in 1..(i - 1) : SamePass(i, j) /\ log[j].ev = "reconcile"
                                     /\ log[j].info # "Attach"
            /\ Cardinality({j \in 1..Len(log) : SamePass(i, j) /\ log[j].ev = "write"}) = 3
    /\ (pc \in {"remove", "dispatch"} /\ args.entrypoint # NONE)
       => docker_cmd = "run" /\ args.venv

\* the second call of dockerw_run attached to the container the first one
\* started with the artifacts written
C3_Witness ==
    /\ status = "replaced"
    /\ pass = 2
    /\ args.venv /\ args.auto_attach = PyTrue
    /\ \E i \in 1..Len(log) : log[i].pass = 1 /\ log[i].ev = "write"
    /\ \E i \in 1..Len(log) : log[i].pass = 2 /\ IsEngine(i, "exec")
    /\ ~\E i \in 1..Len(log) : log[i].pass = 2 /\ log[i].ev = "write"

(***************************************************************************)
(* C4.  Within one tool invocation resolution, reconciliation, synthesis    *)
(* and dispatch each happen at most once, in that order, with one           *)
(* reconciliation decision; after a run or exec is handed to the engine no  *)
(* load, resolution or reconciliation happens again.                        *)
(***************************************************************************)
C4_OnePassInOrder ==
    /\ Cardinality({i \in 1..Len(log) : log[i].ev = "resolve"}) <= 1
    /\ Cardinality({i \in 1..Len(log) : log[i].ev = "reconcile"}) <= 1
    /\ \A i, j \in 1..Len(log) :
         (i < j /\ (IsEngine(i, "run") \/ IsEngine(i, "exec")))
         => log[j].ev \notin {"load", "resolve", "reconcile", "write", "rm", "run", "exec"}
    /\ (\E i \in 1..Len(log) : IsEngine(i, "run") \/ IsEngine(i, "exec"))
       => pc \notin {"load", "resolve", "reconcile", "check", "sweep", "synth", "remove"}

(***************************************************************************)
(* C6.  A container is removed only in a call that decided Replace, and     *)
(* when Replace is decided the removal comes before the run is handed to    *)
(* the engine.                                                              *)
(***************************************************************************)
C6_RemoveBeforeRun ==
    /\ \A i \in 1..Len(log) :
         IsEngine(i, "rm")
         => \E j \in 1..(i - 1) : SamePass(i, j) /\ Decided(j, "Replace")
    /\ \A i \in 1..Len(log) :
         (IsEngine(i, "run") /\ \E j \in 1..Len(log) : SamePass(i, j) /\ Decided(j, "Replace"))
         => \E k \in 1..(i - 1) : SamePass(i, k) /\ IsEngine(k, "rm")
    /\ \A i \in 1..Len(log) :
         (IsEngine(i, "run") \/ IsEngine(i, "exec"))
         => ~\E k \in (i + 1)..Len(log) : SamePass(i, k) /\ IsEngine(k, "rm")

\* a Replace: the container was removed, then the run was handed to the engine
C6_Witness ==
    /\ status = "replaced"
    /\ \E i, j \in 1..Len(log) :
         i < j /\ IsEngine(i, "rm") /\ IsEngine(j, "run") /\ SamePass(i, j)
    /\ Lifecycle(engine, container_name) = "absent"

(***************************************************************************)
(* C5.  The defaults load loop terminates, also when the defaults           *)
(* documents name each other in a cycle, and no load target is loaded more  *)
(* than once in one call.                                                   *)
(***************************************************************************)
C5_NoTargetTwice ==
    \A i, j \in 1..Len(loaded_paths) : loaded_paths[i] = loaded_paths[j] => i = j

C5_LoadLoopTerminates ==
    /\ []C5_NoTargetTwice
    /\ []((pc = "load") => <>(pc # "load"))

\* the documents of two directories name each other and the loop is over
C5_Witness ==
    /\ pc = "resolve"
    /\ DirW \in DOMAIN fs /\ DirQ \in DOMAIN fs
    /\ fs[DirW] = <<Tok("--load", DirQ)>>
    /\ fs[DirQ] = <<Tok("--load", DirW)>>
    /\ loaded_paths = << <<>>, DirW, DirQ >>
    /\ load = DirW

(***************************************************************************)
(* C7.  In the final invocation every volume whose container path lies      *)
(* under the staging prefix /.dockerw/copy carries the read-only option.    *)
(***************************************************************************)
C7_StagedVolumesReadOnly ==
    \A i \in 1..Len(invocation.args) :
        (invocation.args[i].opt = "--volume"
         /\ PathUnder(VolumeDest(invocation.args[i].val), DOCKERW_VENV_COPY_PATH))
        => InList(S_ro, VolumeOptions(invocation.args[i].val))

(***************************************************************************)
(* C8.  A volume whose container-side path lies in the reserved namespace   *)
(* /tmp/dockerw is rejected with a fatal error before anything is           *)
(* synthesized or dispatched.                                               *)
(***************************************************************************)
C8_ReservedDestRejected ==
    (\E i \in 1..Len(MergedTokens) :
        /\ MergedTokens[i].opt = "--volume"
        /\ PathUnder(VolumeDest(MergedTokens[i].val), TMP_DOCKERW))
    => /\ pc \notin {"sweep", "synth", "remove", "dispatch", "reenter"}
       /\ status \notin {"exit0", "replaced"}
       /\ ~\E j \in 1..Len(log) : log[j].ev \in {"write", "rm", "run", "exec"}

(***************************************************************************)
(* C9.  An explicit --load of a path that holds no defaults document is a   *)
(* fatal error that stops the call; a failed auto-discovery is not an       *)
(* error.                                                                   *)
(***************************************************************************)
C9_MissingLoadIsFatal ==
    /\ (\E i \in 1..Len(argv.flags) :
           /\ argv.flags[i].opt = "--load"
           /\ PathResolve(argv.flags[i].val, CWD) \notin DOMAIN fs)
       => (pc # "load" => status = "fatal" /\ pc = "done")
    /\ (argv.flags = <<>> /\ fs = << >> /\ pc = "resolve") => status = "running"

(***************************************************************************)
(* C10.  The --user override and the sandbox action.                        *)
(***************************************************************************)
\* the index of the first token of tokens that is one of opts, 0 when none
FirstOf(tokens, opts) ==
    LET hits == {i \in 1..Len(tokens) : tokens[i].opt \in opts}
    IN  IF hits = {} THEN 0 ELSE CHOOSE i \in hits : \A k \in hits : i <= k

\* the value of the last --user of tokens, NONE when there is none
LastUser(tokens) ==
    LET hits == {i \in 1..Len(tokens) : tokens[i].opt = "--user"}
    IN  IF hits = {} THEN NONE
        ELSE tokens[CHOOSE i \in hits : \A k \in hits : k <= i].val

\* C10 as stated: once an explicit user is set by --user, the sandbox action
\* that comes later does not make it root; the resolved user is the one given.
C10_ExplicitUserKept ==
    LET u == FirstOf(MergedTokens, {"--user"})
        v == FirstOf(MergedTokens, {"--venv", "--defaults"})
    IN  (pc = "reconcile" /\ u > 0 /\ v > u) => args.user = MergedTokens[u].val

\* C10 amended: the sandbox action sets the user to root whether or not an
\* explicit user was set before it, and a --user that comes after it is
\* ignored: with sandbox mode the resolved user is root in either order, and
\* without it the resolved user is the last --user given.
C10_SandboxUserIsRoot ==
    pc = "reconcile"
    => /\ args.venv <=> FirstOf(MergedTokens, {"--venv", "--defaults"}) > 0
       /\ args.venv => args.user = S_root
       /\ ~args.venv => args.user = LastUser(MergedTokens)

\* --user v came before --venv and the resolved user is root
C10_Witness ==
    /\ pc = "reconcile"
    /\ Len(argv.flags) >= 2
    /\ argv.flags[1] = Tok("--user", UserV)
    /\ argv.flags[2] = Flag("--venv")
    /\ args.venv
    /\ args.user = S_root

(***************************************************************************)
(* C11.  In the argument list of _parsed_args_to_list no value of a         *)
(* multi-valued flag occurs twice, and every value the namespace holds for  *)
(* such a flag occurs once, however often the defaults documents, the       *)
(* command line and the wrapper actions supplied it.                        *)
(***************************************************************************)
\* the number of places of the invocation that hold the option opt with value val
Occurrences(opt, val) ==
    Cardinality({i \in 1..Len(invocation.args) : invocation.args[i] = Tok(opt, val)})

C11_ListValuesOnce ==
    invocation # NoInvocation
    => /\ \A i, j \in 1..Len(invocation.args) :
            invocation.args[i] = invocation.args[j] => i = j
       /\ \A k \in 1..Len(args.env) : Occurrences("--env", args.env[k]) = 1
       /\ invocation.cmd = "run"
          => /\ \A k \in 1..Len(args.volume) :
                  Occurrences("--volume", UpdateVolumePath(args.volume[k], FALSE)) = 1
             /\ args.security_opt.type = "list"
                => \A k \in 1..Len(args.security_opt.val) :
                      Occurrences("--security-opt", args.security_opt.val[k]) = 1

\* --venv came from a defaults document and from the command line, so its
\* env values were appended twice, and a run was dispatched
C11_Witness ==
    /\ status = "replaced"
    /\ invocation.cmd = "run"
    /\ \E i \in 1..Len(new_load_args) : new_load_args[i].opt = "--venv"
    /\ \E i \in 1..Len(argv.flags) : argv.flags[i].opt = "--venv"
    /\ \E i, j \in 1..Len(args.env) : i # j /\ args.env[i] = args.env[j]
    /\ Occurrences("--env", S_env_venv) = 1

(***************************************************************************)
(* C12.  Every value given for a list-typed flag of the engine (--volume,   *)
(* --env, --security-opt) is in the resolved run invocation, whatever       *)
(* wrapper action comes before or after it, and giving it never ends the    *)
(* resolution with an exception.                                            *)
(***************************************************************************)
C12_ListValuesAccumulate ==
    /\ (invocation # NoInvocation /\ invocation.cmd = "run")
       => \A i \in 1..Len(MergedTokens) :
            /\ MergedTokens[i].opt \in {"--env", "--security-opt"}
               => Occurrences(MergedTokens[i].opt, MergedTokens[i].val) >= 1
            /\ MergedTokens[i].opt = "--volume"
               => Occurrences("--volume", UpdateVolumePath(MergedTokens[i].val, FALSE)) >= 1
    /\ ~(status = "crash" /\ ~\E j \in 1..Len(log) : log[j].pass = pass /\ log[j].ev = "resolve")

(***************************************************************************)
(* C13.  Scalar flags: the last one to set the flag gives the value.        *)
(***************************************************************************)
\* the last token of tokens that is one of opts, 0 when there is none
LastOf(tokens, opts) ==
    LET hits == {i \in 1..Len(tokens) : tokens[i].opt \in opts}
    IN  IF hits = {} THEN 0 ELSE CHOOSE i \in hits : \A k \in hits : k <= i

\* the value the last token among setters leaves: its own value when it is
\* the option opt, the value fixed when it is one of the wrapper actions that
\* also set the flag; NONE when no token sets it
LastSet(tokens, opt, wrappers, fixed) ==
    LET i == LastOf(tokens, {opt} \cup wrappers)
    IN  IF i = 0 THEN NONE
        ELSE IF tokens[i].opt = opt THEN tokens[i].val ELSE fixed

\* C13 as stated: for every scalar flag the resolved value is the one of the
\* last occurrence in the merged tokens (defaults documents first, command
\* line last) that sets it, --user included.
C13_LastOccurrenceWins ==
    pc = "reconcile"
    => /\ args.name = LastSet(MergedTokens, "--name", {}, NONE)
       /\ args.network = LastSet(MergedTokens, "--network", {"--defaults"}, S_host)
       /\ args.user = LastSet(MergedTokens, "--user", {"--venv", "--defaults"}, S_root)

\* C13 amended: the last occurrence wins for every scalar flag but --user; a
\* --user is stored only while sandbox mode is off, so once --venv or
\* --defaults occurred the resolved user is root whatever --user follows.
C13_LastWinsButUser ==
    pc = "reconcile"
    => /\ args.name = LastSet(MergedTokens, "--name", {}, NONE)
       /\ args.network = LastSet(MergedTokens, "--network", {"--defaults"}, S_host)
       /\ args.user = IF LastOf(MergedTokens, {"--venv", "--defaults"}) > 0
                      THEN S_root
                      ELSE LastSet(MergedTokens, "--user", {}, NONE)

\* a defaults document set the name and the network, the command line set
\* the name again and then the bundle set the network
C13_Witness ==
    /\ pc = "reconcile"
    /\ new_load_args # <<>>
    /\ \E i \in 1..Len(new_load_args) : new_load_args[i] = Tok("--name", NameD)
    /\ argv.flags = <<Tok("--name", NameC), Flag("--defaults")>>
    /\ args.name = NameC
    /\ args.network = S_host

(***************************************************************************)
(* C14.  _parse_image_name: a reference [registry/]name[:tag] gives         *)
(* (registry, name, tag), docker.io standing for a missing registry and     *)
(* latest for a missing tag; a reference in which no name can start is      *)
(* rejected with a fatal error that names it.                               *)
(***************************************************************************)
\* the characters of the references that cannot start a name
NotNameStart == {"A", ".", ":", "/"}

\* the reference read as registry = s[1..i-1], name, tag = s[j+1..], with i
\* the place of the "/" after the registry (0: no registry) and j the place
\* of the ":" before the tag (0: no tag)
ReadAs(s, i, j) ==
    LET e == IF j = 0 THEN Len(s) ELSE j - 1
    IN  [registry |-> SubSeq(s, 1, i - 1), name |-> SubSeq(s, i + 1, e),
         tag |-> IF j = 0 THEN <<>> ELSE SubSeq(s, j + 1, Len(s))]

\* the reading is one of the grammar: the registry holds no "/" and holds a
\* "." or a ":", the name starts with a lower-case letter or digit and holds
\* no ":", the tag is not empty and holds no "/", and a name read without a
\* registry does not begin with a segment that holds a "."
GoodReading(s, i, j) ==
    LET r == ReadAs(s, i, j)
        k == IndexOf(r.name, "/")
    IN  /\ i > 0 => /\ s[i] = "/"
                    /\ ~InList("/", r.registry)
                    /\ InList(".", r.registry) \/ InList(":", r.registry)
        /\ j > 0 => s[j] = ":" /\ j > i /\ r.tag # <<>> /\ ~InList("/", r.tag)
        /\ r.name # <<>> /\ r.name[1] \notin NotNameStart /\ ~InList(":", r.name)
        /\ (i = 0 /\ k > 0) => ~InList(".", SubSeq(r.name, 1, k - 1))

C14_ParseImageName ==
    LET s == argv.image[1]
    IN  /\ pc = "reconcile"
           => \A i, j \in 0..Len(s) :
                GoodReading(s, i, j)
                => LET r == ReadAs(s, i, j)
                   IN  image_parts = [registry |-> IF i = 0 THEN S_docker_io ELSE r.registry,
                                      name |-> r.name,
                                      tag |-> IF j = 0 THEN S_latest ELSE r.tag]
        /\ ((\A k \in 1..Len(s) : s[k] \in NotNameStart) /\ pc \notin {"load", "resolve"})
           => status = "fatal"
        /\ status = "fatal"
           => /\ log[Len(log)].ev = "exit" /\ log[Len(log)].out = "stderr"
              /\ log[Len(log)].value = s
              /\ ~\E k \in 1..Len(log) : log[k].ev = "resolve"

\* the reference with a registry, a port and a tag was resolved
C14_Witness ==
    /\ pc = "reconcile"
    /\ Len(argv.image[1]) > MaxImgLen
    /\ image_parts.registry # S_docker_io
    /\ image_parts.tag = <<"t", "a", "g">>
    /\ image_parts.name = <<"n", "a", "m", "e">>

(***************************************************************************)
(* C15.  A container of the target name exists, neither --auto-attach nor   *)
(* --auto-replace is given and the call is not interactive: no input is     *)
(* read, both prompts take their default answer no, and the decision is     *)
(* FreshRun.                                                                *)
(***************************************************************************)
C15_NonInteractiveDefaults ==
    (/\ pc = "check"
     /\ Lifecycle(engine, container_name) # "absent"
     /\ args.auto_attach = PyNone /\ args.auto_replace = PyNone
     /\ ~args.interactive)
    => /\ docker_cmd = "run"
       /\ is_attach_container = PyFalse
       /\ is_replace_container = PyFalse
       /\ \A i \in 1..Len(log) :
            log[i].pass = pass
            => /\ log[i].ev # "input"
               /\ log[i].ev = "reconcile" => log[i].info = "FreshRun"

\* both prompts were printed with their default answers for a running
\* container of the requested image
C15_Witness ==
    /\ pc = "check"
    /\ ActiveSameImage(engine, container_name, image_parts)
    /\ args.auto_attach = PyNone /\ args.auto_replace = PyNone
    /\ ~args.interactive
    /\ \E i, j \in 1..Len(log) :
         /\ i < j
         /\ log[i].ev = "prompt" /\ log[i].info = "attach"
         /\ log[j].ev = "prompt" /\ log[j].info = "replace"
    /\ docker_cmd = "run"

\* ---------------------------------------------------------------------
\* the last run in the container went through the chain of mechanisms
Dropped == box.out.tried # <<>>
\* the mechanisms are probed in the order chroot, su --session-command, su:
\* every one before the one used did not work, and a probed one worked
InProbeOrder ==
    /\ box.out.tried = SubSeq(Mechanisms, 1, Len(box.out.tried))
    /\ box.out.via = box.out.tried[Len(box.out.tried)]
    /\ \A i \in 1..(Len(box.out.tried) - 1) : ~box.out.works[Mechanisms[i]]
    /\ Len(box.out.tried) < Len(Mechanisms) => box.out.works[box.out.via]
\* when no mechanism works nothing is executed and the failure is the status
\* of the script (the container of a failed entrypoint is over)
FailureIsFinal ==
    ~box.out.works[box.out.via] =>
        /\ box.out.ran_as = "none"
        /\ box.out.exit = "fail"
        /\ box.out.who = "entry" => box.phase = "exited"

\* C16 as stated: in the entrypoint and in the wrapper the command or shell
\* is executed only under the target identity; the mechanisms are tried in
\* the order chroot --userspec, su --session-command, su; when none works the
\* command is not executed and the failure is the status of the script
C16_OnlyTargetIdentity ==
    /\ box.out.ran_as \in {"none", "target"}
    /\ Dropped => InProbeOrder /\ FailureIsFinal

\* C16, amended: the same, except that the wrapper called with SUDO_UID equal
\* to the target uid (line 255) executes the shell under the caller's own
\* identity, which is root for a shell started through sudo
C16_TargetIdentityUnlessSudo ==
    /\ box.out.ran_as \notin {"none", "target"} =>
          box.out.who = "wrapper" /\ box.out.sudo /\ box.out.ran_as = box.out.invoker
    /\ (box.out.who = "entry" \/ NeedsPrivDrop(box.out.invoker, box.out.sudo)) =>
          box.out.ran_as \in {"none", "target"}
    /\ Dropped => InProbeOrder /\ FailureIsFinal
\* root calls a shell, chroot does not work, su --session-command does, and
\* the shell runs under the target identity
C16_Witness ==
    /\ box.out.who = "wrapper" /\ box.out.invoker = "root" /\ ~box.out.sudo
    /\ box.out.tried = <<"chroot", "su_session">>
    /\ box.out.ran_as = "target"

\* the last run was a shell called through the wrapper while the lock marker
\* was on
ShellCallWhileLocked == box.out.who = "wrapper" /\ box.out.cmd = "sh" /\ box.out.lock_before
\* the call printed the banner and failed, no shell ran, the lock is still on
Blocked ==
    /\ box.out.banner /\ box.out.exit = "1"
    /\ box.out.ran_as = "none"
    /\ box.lock
\* the entrypoint whose privilege drop works runs the command under the
\* target identity with no banner, whatever --user-lock asked for, and
\* leaves the lock as --user-lock asked
EntrypointCompletes ==
    (box.out.who = "entry" /\ box.out.works[box.out.via]) =>
        /\ box.out.ran_as = "target" /\ box.out.exit = "own" /\ ~box.out.banner
        /\ box.phase = "up"
        /\ box.lock = box.script.user_lock

\* C17 as stated: while the lock marker is on, every shell invocation under
\* an identity other than the target one prints the banner, fails, runs no
\* shell and leaves the lock on; the entrypoint runs to completion even when
\* --user-lock switched the lock on
C17_LockBlocksOtherIdentities ==
    /\ (ShellCallWhileLocked /\ box.out.invoker # "target") => Blocked
    /\ EntrypointCompletes

\* C17, amended: the same for the invocations whose SUDO_UID is not the
\* target uid; an invocation with SUDO_UID equal to the target uid is treated
\* as the target identity (line 255)
C17_LockBlocksUnlessSudo ==
    /\ (ShellCallWhileLocked /\ NeedsPrivDrop(box.out.invoker, box.out.sudo)) => Blocked
    /\ EntrypointCompletes
\* the container was started without --user-lock, the lock was switched on
\* by a --lock call, and a shell called by root is refused
C17_Witness ==
    /\ ~box.script.user_lock
    /\ ShellCallWhileLocked /\ box.out.invoker = "root" /\ ~box.out.sudo
    /\ Blocked

\* `dockerw run --defaults a ls` with no defaults document, on a host where
\* none of the developer config paths exists, has been parsed
DefaultsAloneBareHost ==
    /\ argv.flags = <<Flag("--defaults")>> /\ fs = << >> /\ host_paths = {}
    /\ pc = "reconcile"
\* the namespace of the fixed bundle: what --defaults sets whatever the host
\* holds (the X11 members only when the display can be shared), next to the
\* image and command as they were resolved
FixedBundle(with_x11) ==
    [Namespace EXCEPT
        !.image = args.image,
        !.defaults = TRUE, !.venv = TRUE, !.dood = TRUE, !.x11 = with_x11,
        !.user = S_root,
        !.interactive = TRUE, !.tty = TRUE, !.rm = TRUE, !.init = TRUE,
        !.privileged = TRUE, !.network = S_host,
        !.security_opt = [type |-> "str", val |-> S_seccomp],
        !.detach_keys = S_detach_keys, !.hostname = HOST_NODE, !.workdir = S_app,
        !.volume = <<S_dood_volume>>
                   \o (IF with_x11 THEN <<S_x11_volume, XAUTH_FILE \o S_xauthority_dest>> ELSE <<>>)
                   \o <<CWD \o <<":">> \o S_app>>,
        !.env = <<S_env_venv, S_env_rc>>
                \o (IF with_x11 THEN <<S_env_display>> ELSE <<>>)
                \o <<S_env_term>>]

\* C18: --defaults alone on a host with none of the optional developer
\* config paths resolves to exactly the fixed bundle (interactive, tty, host
\* network, the current directory mounted as /app and the other fixed
\* members) and to no volume of a conditional path
C18_DefaultsAloneIsFixedBundle ==
    DefaultsAloneBareHost => args \in {FixedBundle(TRUE), FixedBundle(FALSE)}
\* the case is resolved, and the current directory is the last volume
C18_Witness ==
    /\ DefaultsAloneBareHost
    /\ args.defaults
    /\ args.volume[Len(args.volume)] = CWD \o <<":">> \o S_app

\* nothing outside the process has been changed: no file swept or written,
\* no container removed, nothing run or exec'ed
NoExternalEffect == \A j \in 1..Len(log) : log[j].ev \notin {"sweep", "write", "rm", "run", "exec"}
\* a --volume of the command line or of a defaults document whose host side
\* is /tmp/dockerw or a path below it
ReservedHostVolume(t) ==
    /\ t.opt = "--volume"
    /\ \/ StartsWith(t.val, TMP_DOCKERW \o <<"/">>)
       \/ StartsWith(t.val, TMP_DOCKERW \o <<":">>)

\* C19: a fatal input error (malformed image reference, volume on the
\* reserved path) ends dockerw_run with a message and a non-zero exit before
\* any container is removed, any bootstrap artifact is written and anything
\* is dispatched
C19_FatalBeforeEffects ==
    /\ status = "fatal" =>
          /\ pc = "done"
          /\ log[Len(log)].ev = "exit" /\ log[Len(log)].out = "stderr"
          /\ log[Len(log)].info \in {"invalid image name", "volume uses /tmp/dockerw"}
          /\ NoExternalEffect
    /\ (argv.image = <<ImgBad>> /\ pc \notin {"load", "resolve"}) =>
          status \in {"fatal", "crash"} /\ NoExternalEffect
    /\ (\E i \in 1..Len(MergedTokens) : ReservedHostVolume(MergedTokens[i])) =>
          /\ pc \notin {"sweep", "synth", "remove", "dispatch", "reenter"}
          /\ status \notin {"exit0", "replaced"}
          /\ NoExternalEffect
\* a container of the name is running, the reconciliation has been through,
\* and the call ends on the reserved volume
C19_Witness ==
    /\ status = "fatal"
    /\ engine # <<>>
    /\ log[Len(log)].info = "volume uses /tmp/dockerw"
    /\ \E j \in 1..Len(log) : log[j].ev = "reconcile"

\* the call names no image and selects no print mode
NoImageNoPrint ==
    /\ argv.image = <<>>
    /\ \A i \in 1..Len(MergedTokens) :
          MergedTokens[i].opt \notin {"--default-image", "--print-cmd", "--args-only", "--print-defaults"}
\* no container removed, no script written, nothing run or exec'ed, and the
\* call is at none of the steps that do so
NothingDispatched ==
    /\ \A j \in 1..Len(log) : log[j].ev \notin {"write", "rm", "run", "exec"}
    /\ pc \notin {"synth", "remove", "dispatch", "reenter"}
\* --security-opt after --defaults, which the parser does not survive
AppendsToDefaultsString ==
    \E i, j \in 1..Len(MergedTokens) :
        i < j /\ MergedTokens[i].opt = "--defaults" /\ MergedTokens[j].opt = "--security-opt"

\* C20 as stated: with no image resolved and no print mode, dockerw_run
\* exits with code 0 and removes no container, writes no script and
\* dispatches nothing, whatever --auto-attach, --auto-replace and the answers
C20_NoImageExitsZero ==
    NoImageNoPrint =>
        /\ NothingDispatched
        /\ pc = "done" => status = "exit0"

\* C20, amended: the same, except that the call ends with a message and a
\* non-zero status instead when a volume is on the reserved path or the
\* parser fails; in every case nothing is removed, written or dispatched
C20_NoImageExitsZeroUnlessError ==
    NoImageNoPrint =>
        /\ NothingDispatched
        /\ pc = "done" =>
              \/ status = "exit0" /\ log[Len(log)] = Ev("exit", "none", "0")
              \/ status = "fatal" /\ \E i \in 1..Len(MergedTokens) : ReservedHostVolume(MergedTokens[i])
              \/ status = "crash" /\ AppendsToDefaultsString
        /\ (pc = "done" /\ ~AppendsToDefaultsString
                /\ ~\E i \in 1..Len(MergedTokens) : ReservedHostVolume(MergedTokens[i]))
              => status = "exit0"
\* a container of the name exists, its replacement has been decided, the
\* call has ended with 0 and the container is still there
C20_Witness ==
    /\ NoImageNoPrint
    /\ status = "exit0"
    /\ Truthy(is_replace_container)
    /\ engine # <<>>

\* the shell --default-shell configures, "sh" when it is not given
ConfiguredShell ==
    LET i == LastOf(MergedTokens, {"--default-shell"})
    IN  IF i = 0 THEN <<"s", "h">> ELSE MergedTokens[i].val
\* the command given for the container: the words after the image
GivenCommand == IF argv.image = <<>> THEN <<>> ELSE Tail(argv.image) \o argv.cmds

\* C21: on an Attach the command dispatched is exec, its first positional is
\* the name of the existing container instead of the image, and without a
\* command of the user's the command is the --default-shell, or sh
C21_AttachExecsInContainer ==
    /\ docker_cmd = "exec" =>
          /\ LastOf(MergedTokens, {"--name"}) # 0
          /\ container_name = MergedTokens[LastOf(MergedTokens, {"--name"})].val
          /\ \E i \in 1..Len(engine) : engine[i].name = container_name
          /\ args.image = <<container_name>>
                           \o (IF GivenCommand = <<>> THEN <<ConfiguredShell>> ELSE GivenCommand)
    /\ \A i \in 1..Len(log) :
          (Decided(i, "Attach") /\ log[i].pass = pass /\ invocation # NoInvocation) =>
              /\ invocation.cmd = "exec"
              /\ invocation.image = args.image
              /\ invocation.image[1] = container_name
\* an attach to container c with zsh configured as the default shell and no
\* command has been handed to the engine
C21_Witness ==
    /\ status = "replaced"
    /\ invocation # NoInvocation
    /\ invocation.cmd = "exec"
    /\ invocation.image = <<NameC, <<"z", "s", "h">> >>

\* C22: in one call no defaults document is loaded more than once: two load
\* targets that name the same directory by different strings (relative or
\* absolute, trailing separator) count as one loaded path
C22_NoDocumentTwice ==
    \A i, j \in 2..Len(loaded_paths) :
        PathResolve(loaded_paths[i], CWD) = PathResolve(loaded_paths[j], CWD) => i = j

\* the project root in force at token i of the merged sequence: the value of
\* the last marker before it, the invoking directory when there is none
RootAt(i) ==
    LET k == LastOf(SubSeq(MergedTokens, 1, i - 1), {"--_dockerw_parse_cwd_"})
    IN  IF k = 0 THEN CWD ELSE MergedTokens[k].val
\* the host side of a volume value
VolumeHost(vol) == Split(vol, ":")[1]
\* the run invocation mounts host path h
MountsHost(h) ==
    \E k \in 1..Len(invocation.args) :
        invocation.args[k].opt = "--volume" /\ VolumeHost(invocation.args[k].val) = h
\* token i is a --volume or --copy with a relative host side
RelativeVolume(i) ==
    /\ MergedTokens[i].opt \in {"--volume", "--copy"}
    /\ VolumeHost(MergedTokens[i].val)[1] \notin {"/", "~"}
\* token i comes from the command line
FromCommandLine(i) == i > Len(new_load_args)

\* C23: a relative host path of a --volume or --copy and the bind mount of a
\* --defaults resolve against the project root of the defaults document they
\* come from, and against the invoking directory when they are given on the
\* command line, also after nested loads
C23_PathsResolveAgainstOrigin ==
    (invocation # NoInvocation /\ invocation.cmd = "run" /\ status # "crash") =>
        \A i \in 1..Len(MergedTokens) :
            /\ RelativeVolume(i) =>
                  MountsHost(PathResolve(VolumeHost(MergedTokens[i].val),
                                         IF FromCommandLine(i) THEN CWD ELSE PathResolve(RootAt(i), CWD)))
            /\ MergedTokens[i].opt = "--defaults" =>
                  \E k \in 1..Len(invocation.args) :
                      invocation.args[k] =
                          Tok("--volume", (IF FromCommandLine(i) THEN CWD ELSE PathResolve(RootAt(i), CWD))
                                          \o <<":">> \o S_app)

\* the reconciliation of this call is over, --auto-attach was requested and
\* the container of the name rules the attach out: it is not active-like or
\* its image is not the requested one
AutoAttachRuledOut ==
    /\ pc = "check"
    /\ args.auto_attach = PyTrue
    /\ Lifecycle(engine, container_name) # "absent"
    /\ ~ActiveSameImage(engine, container_name, image_parts)
\* this call wrote the warning that auto-attach is disabled to the error stream
WarnedDisabled ==
    \E i \in 1..Len(log) :
        /\ log[i].pass = pass
        /\ log[i].ev = "warning" /\ log[i].out = "stderr"
        /\ log[i].info = "disabled auto-attach"

\* C24 as stated: whenever --auto-attach was requested and is disabled
\* because the container is not active-like or has another image, a warning
\* is written to the error stream, whatever --auto-replace is
C24_DisabledAttachWarns ==
    AutoAttachRuledOut => is_attach_container = PyFalse /\ WarnedDisabled

\* C24, amended: the warning is written when --auto-replace is not given;
\* with --auto-replace the attach is given up without a warning and the
\* container is replaced
C24_DisabledAttachWarnsUnlessReplace ==
    AutoAttachRuledOut =>
        /\ is_attach_container = PyFalse /\ docker_cmd = "run"
        /\ args.auto_replace # PyTrue => WarnedDisabled
        /\ args.auto_replace = PyTrue => ~WarnedDisabled /\ is_replace_container = PyTrue
\* --auto-attach alone meets an exited container of the name and the warning
\* has been written
C24_Witness ==
    /\ AutoAttachRuledOut
    /\ args.auto_replace = PyNone
    /\ Lifecycle(engine, container_name) = "inactive"
    /\ WarnedDisabled

\* C25: when a reconciliation prompt is resolved in a call that is not
\* interactive, the prompt text and the default answer taken are written to
\* the error stream and not to the standard output
C25_DefaultAnswerOnStderr ==
    (pc \notin {"load", "resolve"} /\ ~args.interactive) =>
        \A i \in 1..Len(log) :
            (log[i].pass = pass /\ log[i].ev = "prompt") => log[i].out = "stderr"

\* the reconciliation of this call is over and both --auto-attach and
\* --auto-replace were given
BothAutoFlags ==
    /\ pc = "check"
    /\ args.auto_attach = PyTrue /\ args.auto_replace = PyTrue
\* the decision the reconciliation has just logged
LastDecision == log[Len(log)].info

\* C26: with --auto-attach and --auto-replace, a container that is
\* active-like with the requested image is attached to and not removed; one
\* that is inactive-like or has another image is replaced
C26_AttachBeforeReplace ==
    /\ (BothAutoFlags /\ ActiveSameImage(engine, container_name, image_parts)) =>
          /\ log[Len(log)].ev = "reconcile" /\ LastDecision = "Attach"
          /\ docker_cmd = "exec" /\ is_replace_container = PyFalse
    /\ (BothAutoFlags /\ Lifecycle(engine, container_name) # "absent"
           /\ ~ActiveSameImage(engine, container_name, image_parts)) =>
          /\ log[Len(log)].ev = "reconcile" /\ LastDecision = "Replace"
          /\ docker_cmd = "run" /\ is_replace_container = PyTrue
    /\ \A i, j \in 1..Len(log) :
          (Decided(i, "Attach") /\ SamePass(i, j)) => ~IsEngine(j, "rm")
    /\ (docker_cmd = "exec" /\ status # "crash") => Lifecycle(engine, container_name) = "active"
\* both flags were given, the exec has been handed to the engine and the
\* container is still there
C26_Witness ==
    /\ status = "replaced"
    /\ args.auto_attach = PyTrue /\ args.auto_replace = PyTrue
    /\ invocation # NoInvocation /\ invocation.cmd = "exec"
    /\ Lifecycle(engine, container_name) = "active"

\* sandbox mode is switched on by a token of the merged sequence
SandboxRequested == \E i \in 1..Len(MergedTokens) : MergedTokens[i].opt \in {"--venv", "--defaults"}
\* the users the invocation passes to the engine
UsersPassed == { invocation.args[k].val : k \in {n \in 1..Len(invocation.args) : invocation.args[n].opt = "--user"} }
\* the artifact read inside the running container in this call names user u
ArtifactNames(u) ==
    \E i \in 1..Len(log) : log[i].pass = pass /\ log[i].ev = "artifact" /\ log[i].info = u

\* C27: a run in sandbox mode passes root as the user, whatever the order of
\* --user and the sandbox flag; an attach in sandbox mode passes root or the
\* host user name, the latter only when the artifact in the running
\* container names that user
C27_SandboxUser ==
    (invocation # NoInvocation /\ SandboxRequested) =>
        /\ invocation.cmd = "run" => UsersPassed = {<<"r", "o", "o", "t">>}
        /\ invocation.cmd = "exec" =>
              /\ UsersPassed \in {{<<"r", "o", "o", "t">>}, {DOCKERW_UNAME}}
              /\ UsersPassed = {DOCKERW_UNAME} <=> ArtifactNames(DOCKERW_UNAME)
\* an attach in sandbox mode, with --user v on the command line, passes the
\* host user the artifact names
C27_Witness ==
    /\ invocation # NoInvocation /\ invocation.cmd = "exec"
    /\ SandboxRequested
    /\ \E i \in 1..Len(MergedTokens) : MergedTokens[i] = Tok("--user", UserV)
    /\ UsersPassed = {DOCKERW_UNAME}

\* the merged sequence holds option opt
Given(opt) == \E i \in 1..Len(MergedTokens) : MergedTokens[i].opt = opt
\* a print mode is selected: --print-cmd, or --args-only without --cache-cmd
PrintMode == Given("--print-cmd") \/ (Given("--args-only") /\ ~Given("--cache-cmd"))
\* nothing but output so far: no sweep, no script written, no container
\* removed, nothing run or exec'ed, and the call is at none of these steps
OnlyPrinted ==
    /\ NoExternalEffect
    /\ pc \notin {"sweep", "synth", "remove", "dispatch", "reenter"}
\* this call has decided to replace the container
ReplaceDecided == \E i \in 1..Len(log) : Decided(i, "Replace") /\ log[i].pass = pass
\* this call has printed the removal command
RemovalPrinted ==
    \E i \in 1..Len(log) :
        log[i].pass = pass /\ log[i].ev = "print" /\ log[i].info = "docker rm -f"

C29_CacheCmdTouchesNothing ==
    Given("--cache-cmd") =>
        /\ \A i \in 1..Len(log) : log[i].ev \notin {"rm", "run", "exec"}
        /\ status # "replaced"

\* the parts of a parse result
PartsOf(p) == [registry |-> p.registry, name |-> p.name, tag |-> p.tag]

\* C30: image normalization is idempotent: the rendered form
\* registry/name:tag of every accepted reference is accepted again and
\* parses to the same registry, name and tag, so the strings the
\* reconciliation compares are canonical
C30_NormalizationIdempotent ==
    /\ (pc \notin {"load", "resolve"} /\ status = "running" /\ docker_cmd = "run"
           /\ args.image[1] # <<>>) =>
          /\ ParseImageName(args.image[1]).ok
          /\ PartsOf(ParseImageName(args.image[1])) = image_parts
          /\ RenderImage(ParseImageName(args.image[1])) = args.image[1]
    /\ current_image # <<>> =>
          /\ ParseImageName(current_image).ok
          /\ RenderImage(ParseImageName(current_image)) = current_image
\* a reference whose first segment holds a dot but whose name cannot start
\* after it was taken as a name under docker.io, and its rendered form is
\* not the reference given
C30_Witness ==
    /\ pc = "reconcile"
    /\ image_parts.registry = S_docker_io
    /\ InList("/", image_parts.name) /\ InList(".", image_parts.name)
    /\ args.image[1] # argv.image[1]

====
